---- MODULE Spec2Model ----
(***************************************************************************)
(* Model of the receipt and log index subsystem of the client              *)
(*                                                                         *)
(* (packages/client/lib/execution/receipt.ts, class ReceiptsManager), of    *)
(* the hashing precompiles and of the opcode table of the EVM.             *)
(*                                                                         *)
(* Specifications:                                                         *)
(*   Spec            saveReceipts and its un-awaited index updates running *)
(*                   against a growing chain (every await is one step);    *)
(*   SpecWindow      the same steps over a longer chain of blocks of one   *)
(*                   or two transactions, no tx hash in two blocks;        *)
(*   SpecFair        the same over a shorter chain, every pending promise  *)
(*                   settling as long as no rejection is unhandled;        *)
(*   SpecLogs        a getLogs call running while receipts are saved;      *)
(*   SpecRlp         rlp() encoding and decoding lists of receipts;        *)
(*   SpecPrecompiles the SHA256 and RIPEMD160 precompiles;                 *)
(*   SpecEvm         EVMs built with custom opcodes, copied, and run.      *)
(***************************************************************************)
EXTENDS Integers, Sequences, FiniteSets, TLC

VARIABLES
    txLookupLimit,   \* this.config.txLookupLimit
    chain,           \* this.chain: the canonical blocks, chain[n + 1] has number n
    receiptsDB,      \* metaDB keys DBKey.Receipts: block hash -> encoded receipts
    txHashDB,        \* metaDB keys DBKey.TxHash: tx hash -> encoded TxHashIndex
    calls,           \* per block number: the saveReceipts call made for that block
    tasks,           \* per block number: its updateIndex(Save) promise
    dels,            \* per block number: the updateIndex(Delete) promise it started
    quiet,           \* history: no other index update ran since this one started
    GET_LOGS_LIMIT,             \* instance field, receipt.ts line 83
    GET_LOGS_LIMIT_MEGABYTES,   \* instance field, receipt.ts line 88
    GET_LOGS_BLOCK_RANGE_LIMIT, \* instance field, receipt.ts line 93
    query,           \* the getLogs call made (SpecLogs)
    result,          \* its position, its locals and what it returned or threw (SpecLogs)
    codec,           \* the list of receipts last put through rlp() (SpecRlp)
    precompile,      \* the precompile call last made and its outcome (SpecPrecompiles)
    opcodes,         \* the default opcode map shared by all EVMs (SpecEvm)
    heap,            \* the customOpcodes arrays, by reference (SpecEvm)
    evms,            \* the EVM instances built so far (SpecEvm)
    run              \* the runCode call last made and its result (SpecEvm)

vars == <<txLookupLimit, chain, receiptsDB, txHashDB, calls, tasks, dels, quiet,
          GET_LOGS_LIMIT, GET_LOGS_LIMIT_MEGABYTES, GET_LOGS_BLOCK_RANGE_LIMIT, query, result,
          codec, precompile, opcodes, heap, evms, run>>

storeVars == <<txLookupLimit, chain, receiptsDB, txHashDB, calls, tasks, dels, quiet>>

logVars == <<GET_LOGS_LIMIT, GET_LOGS_LIMIT_MEGABYTES, GET_LOGS_BLOCK_RANGE_LIMIT, query, result>>

pureVars == <<codec, precompile>>

evmVars == <<opcodes, heap, evms, run>>

----------------------------------------------------------------------------
(* Bounds of the model *)

\* Highest block number the chain reaches in Spec (block 0 is genesis).
MaxHeight == 2

\* txLookupLimit ranges over 0..MaxLookupLimit.
MaxLookupLimit == 2

\* Addresses (0xAA, 0xBB, 0xCC) and topics (T1, T2) of the logs and filters.
AA == 170

BB == 187

CC == 204

T1 == 1

T2 == 2

\* The blocks the chain may take: the hashes of the block's transactions (none twice in
\* a block) and, per transaction, the logs its execution emits: [address, topics, data].
BlockPool ==
    { [hashes |-> << >>,     logs |-> << >>],
      [hashes |-> <<1, 2>>,  logs |-> << <<<<AA, <<T1, T2>>, 0>>>>, <<<<BB, <<T1>>, 0>>>> >>],
      [hashes |-> <<2, 1>>,  logs |-> << << >>,
                                         <<<<BB, << >>, 0>>, <<AA, <<T2, T1>>, 0>>, <<AA, <<T1, T1>>, 0>>>> >>] }

\* The blocks of the chains of SpecLogs: those, and a block of one transaction and one
\* log.
LogBlockPool ==
    BlockPool \cup {[hashes |-> <<1>>, logs |-> << <<<<AA, <<T1>>, 0>>>> >>]}

\* Highest block number of the chain in SpecLogs (block 0 is genesis).
MaxLogHeight == 2

\* The values the fields GET_LOGS_LIMIT, GET_LOGS_LIMIT_MEGABYTES and
\* GET_LOGS_BLOCK_RANGE_LIMIT are given: the defaults, a small count and range, and
\* the smallest size budgets.
LogLimits == {<<10000, 150, 2500>>, <<2, 150, 1>>, <<10000, 1, 2500>>, <<10000, 0, 2500>>}

\* Longest list of receipts put through rlp() in SpecRlp.
MaxReceipts == 2

\* The receipts of those lists: state roots of 32 bytes, both statuses, amounts of gas
\* of one to three bytes, and lists of logs; each with its bloom, as executed receipts
\* have.
StateRoots == {[k \in 1..32 |-> 0], [k \in 1..32 |-> IF k = 1 THEN 0 ELSE 171]}

GasAmounts == {0, 21000, 65536}

LogLists == {<< >>, << <<AA, <<T1, T2>>, 0>>, <<BB, << >>, 0>> >>}

\* Longest input handed to a precompile in SpecPrecompiles, in bytes.
MaxDataLen == 65

\* The inputs of the precompile calls: opts.data (absent, or bytes), opts.gasLimit
\* (around the costs of zero to three words), opts._common (the gas prices of the chain).
NoData == [given |-> FALSE, bytes |-> << >>]

DataPool ==
    {NoData} \cup {[given |-> TRUE, bytes |-> [k \in 1..n |-> b]] : n \in 0..MaxDataLen, b \in {0, 97}}

GasLimits == {0, 59, 60, 71, 72, 83, 84, 96, 599, 600, 719, 720, 840, 959, 960, 100000}

Commons == {[sha256 |-> 60, sha256Word |-> 12, ripemd160 |-> 600, ripemd160Word |-> 120]}

\* Most EVMs built in SpecEvm, and most entries pushed onto the customOpcodes array
\* of one EVM after it was built.
MaxEvms == 2

MaxPushes == 1

\* The filters of a getLogs call: addresses (absent, or a list), and per topic
\* position null, one value, or a list of values.
Absent == [given |-> FALSE, list |-> << >>]

Addrs(list) == [given |-> TRUE, list |-> list]

AnyTopic == [kind |-> "null"]

OneTopic(t) == [kind |-> "value", value |-> t]

SomeTopic(ts) == [kind |-> "list", list |-> ts]

AddressFilters == {Absent, Addrs(<< >>), Addrs(<<AA>>), Addrs(<<CC, BB>>)}

TopicFilters ==
    { << >>, <<AnyTopic>>, <<OneTopic(T1)>>, <<AnyTopic, OneTopic(T2)>>,
      <<OneTopic(T1), OneTopic(T2)>>, <<SomeTopic(<<T2, T1>>), SomeTopic(<<T2>>)>>,
      <<SomeTopic(<< >>)>>, <<OneTopic(T2), AnyTopic>> }

\* The filters of the getLogs calls of SpecLogs, <<addresses, topics>>: every topics
\* filter without addresses, and every addresses filter with no topics, with one value
\* and with a value behind a null.
LogFilters ==
    {<<Absent, t>> : t \in TopicFilters}
        \cup (AddressFilters \X {<< >>, <<OneTopic(T1)>>, <<AnyTopic, OneTopic(T2)>>})

----------------------------------------------------------------------------
(* Values *)

\* null, as returned by getIndex and getReceiptByTxHash
Null == << >>

\* a TypeError thrown on reading a property of undefined
TypeError == <<"TypeError">>

Max(a, b) == IF a >= b THEN a ELSE b

RECURSIVE SumSeq(_)
SumSeq(s) == IF s = << >> THEN 0 ELSE Head(s) + SumSeq(Tail(s))

RECURSIVE ConcatAll(_)
ConcatAll(ss) == IF ss = << >> THEN << >> ELSE Head(ss) \o ConcatAll(Tail(ss))

\* block.hash(): one hash per block of the chain
BlockHash(block) == 1000 + block.number

\* this.chain.headers.height
Height == Len(chain) - 1

\* this.chain.getBlock(number)
GetBlockByNumber(n) == chain[n + 1]

\* this.chain.getBlock(hash)
GetBlockByHash(h) == CHOOSE b \in {chain[k] : k \in 1..Len(chain)} : BlockHash(b) = h

\* intToBuffer / bigIntToBuffer: big-endian bytes, no leading zero byte; 0 is one zero byte
RECURSIVE IntToBuffer(_)
IntToBuffer(i) == IF i < 256 THEN <<i>> ELSE Append(IntToBuffer(i \div 256), i % 256)

\* bufferToInt / bufferToBigInt
RECURSIVE BufferToInt(_)
BufferToInt(buf) ==
    IF buf = << >> THEN 0
    ELSE 256 * BufferToInt(SubSeq(buf, 1, Len(buf) - 1)) + buf[Len(buf)]

----------------------------------------------------------------------------
(* rlp(): storage encodings *)

\* RlpType.Logs
RlpEncodeLogs(logs) == <<"rlp", logs>>

RlpDecodeLogs(buf) == buf[2]

\* RlpType.Receipts, encode: [stateRoot ?? intToBuffer(status), gas, logs] per receipt
RlpEncodeReceipts(receipts) ==
    [k \in 1..Len(receipts) |->
        <<IF "stateRoot" \in DOMAIN receipts[k]
            THEN receipts[k].stateRoot
            ELSE IntToBuffer(receipts[k].status),
          IntToBuffer(receipts[k].cumulativeBlockGasUsed),
          RlpEncodeLogs(receipts[k].logs)>>]

\* Mutant of RlpDecodeReceipts: every receipt is decoded as post-Byzantium.
RlpDecodeReceiptsPostOnly(encoded) ==
    [k \in 1..Len(encoded) |->
        [status |-> BufferToInt(encoded[k][1]),
         cumulativeBlockGasUsed |-> BufferToInt(encoded[k][2]),
         logs |-> RlpDecodeLogs(encoded[k][3])]]

\* RlpType.Receipts, decode: a first field of 32 bytes is a state root
RlpDecodeReceipts(encoded) ==
    [k \in 1..Len(encoded) |->
        IF Len(encoded[k][1]) = 32
          THEN [stateRoot |-> encoded[k][1],
                cumulativeBlockGasUsed |-> BufferToInt(encoded[k][2]),
                logs |-> RlpDecodeLogs(encoded[k][3])]
          ELSE [status |-> BufferToInt(encoded[k][1]),
                cumulativeBlockGasUsed |-> BufferToInt(encoded[k][2]),
                logs |-> RlpDecodeLogs(encoded[k][3])]]

\* RlpType.TxHash
RlpEncodeTxHash(index) == <<index[1], IntToBuffer(index[2])>>

RlpDecodeTxHash(encoded) == <<encoded[1], BufferToInt(encoded[2])>>

----------------------------------------------------------------------------
(* Bloom filter of a receipt *)

\* keccak256(item): the first six bytes of the digest
Keccak256(item) ==
    <<(item * 37 + 11) % 256, (item * 101 + 7) % 256, (item * 59 + 3) % 256,
      (item * 13 + 5) % 256, (item * 71 + 9) % 256, (item * 29 + 1) % 256>>

\* Bloom.add: three 11-bit indexes from byte pairs 0-1, 2-3, 4-5 of the digest
BloomBits(item) ==
    LET e == Keccak256(item)
    IN  {(e[1] * 256 + e[2]) % 2048, (e[3] * 256 + e[4]) % 2048, (e[5] * 256 + e[6]) % 2048}

\* Bloom.check
BloomCheck(bitvector, item) == BloomBits(item) \subseteq bitvector

\* Mutant of LogsBloom: only the addresses are added.
LogsBloomAddressesOnly(logs) == UNION {BloomBits(logs[k][1]) : k \in 1..Len(logs)}

\* logsBloom(logs).bitvector: the address and every topic of every log
LogsBloom(logs) ==
    UNION {BloomBits(logs[k][1]) \cup UNION {BloomBits(logs[k][2][q]) : q \in 1..Len(logs[k][2])}
           : k \in 1..Len(logs)}

----------------------------------------------------------------------------
(* Queries on the stored receipts *)

\* Mutant of GetReceipts: the receipts of a block are found only through a TxHash
\* index that names the block.
GetReceiptsIfIndexed(blockHash, calcBloom, includeTxType) ==
    IF \A h \in DOMAIN txHashDB : RlpDecodeTxHash(txHashDB[h])[1] # blockHash
      THEN << >>
      ELSE RlpDecodeReceipts(receiptsDB[blockHash])

\* getReceipts(blockHash, calcBloom, includeTxType)
GetReceipts(blockHash, calcBloom, includeTxType) ==
    IF blockHash \notin DOMAIN receiptsDB THEN << >>
    ELSE
      LET decoded == RlpDecodeReceipts(receiptsDB[blockHash])
          bloomed == IF calcBloom
                       THEN [k \in 1..Len(decoded) |->
                               ("bitvector" :> LogsBloom(decoded[k].logs)) @@ decoded[k]]
                       ELSE decoded
          block   == GetBlockByHash(blockHash)
      IN  IF ~includeTxType THEN bloomed
          ELSE IF Len(bloomed) > Len(block.transactions) THEN TypeError
          ELSE [k \in 1..Len(bloomed) |->
                  ("txType" :> block.transactions[k].type) @@ bloomed[k]]

\* getIndex(IndexType.TxHash, txHash)
GetIndex(txHash) ==
    IF txHash \notin DOMAIN txHashDB THEN Null ELSE RlpDecodeTxHash(txHashDB[txHash])

\* Mutant of GetReceiptByTxHash: the index is used without the check of line 153.
GetReceiptByTxHashUnchecked(txHash) ==
    LET txHashIndex == GetIndex(txHash)
    IN  IF txHashIndex = Null THEN TypeError
        ELSE
          LET receipts == GetReceipts(txHashIndex[1], FALSE, FALSE)
          IN  IF Len(receipts) = 0 THEN Null
              ELSE IF txHashIndex[2] >= Len(receipts) THEN TypeError
              ELSE <<("bitvector" :> LogsBloom(receipts[txHashIndex[2] + 1].logs))
                       @@ receipts[txHashIndex[2] + 1],
                     txHashIndex[1], txHashIndex[2],
                     SumSeq([k \in 1..txHashIndex[2] |-> Len(receipts[k].logs)])>>

\* Mutant of GetReceiptByTxHash: the logs of the receipt itself are counted into its
\* logIndex.
GetReceiptByTxHashCountingOwn(txHash) ==
    LET txHashIndex == GetIndex(txHash)
    IN  IF txHashIndex = Null THEN Null
        ELSE
          LET receipts == GetReceipts(txHashIndex[1], FALSE, FALSE)
          IN  IF Len(receipts) = 0 THEN Null
              ELSE IF txHashIndex[2] >= Len(receipts) THEN TypeError
              ELSE <<("bitvector" :> LogsBloom(receipts[txHashIndex[2] + 1].logs))
                       @@ receipts[txHashIndex[2] + 1],
                     txHashIndex[1], txHashIndex[2],
                     SumSeq([k \in 1..(txHashIndex[2] + 1) |-> Len(receipts[k].logs)])>>

\* getReceiptByTxHash(txHash)
GetReceiptByTxHash(txHash) ==
    LET txHashIndex == GetIndex(txHash)
    IN  IF txHashIndex = Null THEN Null
        ELSE
          LET blockHash == txHashIndex[1]
              txIndex   == txHashIndex[2]
              receipts  == GetReceipts(blockHash, FALSE, FALSE)
              before    == SubSeq(receipts, 1, IF txIndex < Len(receipts) THEN txIndex ELSE Len(receipts))
              logIndex  == SumSeq([k \in 1..Len(before) |-> Len(before[k].logs)])
          IN  IF Len(receipts) = 0 THEN Null
              ELSE IF txIndex >= Len(receipts) THEN TypeError
              ELSE <<("bitvector" :> LogsBloom(receipts[txIndex + 1].logs)) @@ receipts[txIndex + 1],
                     blockHash, txIndex, logIndex>>

----------------------------------------------------------------------------
(* The chain and the arguments of saveReceipts *)

\* a transaction of a block: tx.hash() and tx.type
MkTx(h) == [hash |-> h, type |-> IF h = 1 THEN 0 ELSE 2]

\* a block of the chain; logs are what executing it yields, kept with the block here
MkBlock(n, b) ==
    [number |-> n, transactions |-> [k \in 1..Len(b.hashes) |-> MkTx(b.hashes[k])],
     logs |-> b.logs]

Genesis == MkBlock(0, [hashes |-> << >>, logs |-> << >>])

\* a post-Byzantium receipt of the k-th transaction of a block
MkReceipt(k, logs) == [status |-> 1, cumulativeBlockGasUsed |-> 21000 * k, logs |-> logs]

\* the receipts the execution of a block hands to saveReceipts: one per transaction
ReceiptsOf(block) == [k \in 1..Len(block.transactions) |-> MkReceipt(k, block.logs[k])]

\* the block numbers saveReceipts is called for in a behaviour
Calls == DOMAIN calls

\* before any getLogs call
NoQuery == [made |-> FALSE, from |-> 0, to |-> 0, addresses |-> Absent, topics |-> << >>]

\* pc: where the call is; next: the loop variable i; logs, size: returnedLogs and
\* returnedLogsSize; seen: the blocks whose receipts the loop read and found stored
NoResult == [pc |-> "none", threw |-> FALSE, logs |-> << >>, next |-> 0, size |-> 0, seen |-> {}]

NoCall == [pc |-> "none"]

NoTask == [pc |-> "none"]

\* before any rlp() call
NoCodec == [pc |-> "none", receipts |-> << >>, encoded |-> << >>, decoded |-> << >>]

\* before any precompile call
NoPrecompile == [made |-> FALSE]

\* before any runCode call
NoRun == [made |-> FALSE]

\* a manager with the limits it is constructed with, no getLogs call made
LogsIdle ==
    /\ GET_LOGS_LIMIT = 10000
    /\ GET_LOGS_LIMIT_MEGABYTES = 150
    /\ GET_LOGS_BLOCK_RANGE_LIMIT = 2500
    /\ query = NoQuery
    /\ result = NoResult

\* no rlp() call and no precompile call followed
PureIdle ==
    /\ codec = NoCodec
    /\ precompile = NoPrecompile

\* the opcodes of the default map that the model carries: byte -> descriptor; gasFn
\* and logicFn name the dynamic gas handler and the handler of the opcode
DefaultOpcodes ==
    (0   :> [name |-> "STOP",      baseFee |-> 0,  gasFn |-> "none",   logicFn |-> "STOP"]) @@
    (1   :> [name |-> "ADD",       baseFee |-> 3,  gasFn |-> "none",   logicFn |-> "ADD"]) @@
    (32  :> [name |-> "KECCAK256", baseFee |-> 30, gasFn |-> "memory", logicFn |-> "KECCAK256"]) @@
    (80  :> [name |-> "POP",       baseFee |-> 2,  gasFn |-> "none",   logicFn |-> "POP"]) @@
    (82  :> [name |-> "MSTORE",    baseFee |-> 3,  gasFn |-> "memory", logicFn |-> "MSTORE"]) @@
    (85  :> [name |-> "SSTORE",    baseFee |-> 0,  gasFn |-> "sstore", logicFn |-> "SSTORE"]) @@
    (86  :> [name |-> "JUMP",      baseFee |-> 8,  gasFn |-> "none",   logicFn |-> "JUMP"]) @@
    (91  :> [name |-> "JUMPDEST",  baseFee |-> 1,  gasFn |-> "none",   logicFn |-> "JUMPDEST"]) @@
    (96  :> [name |-> "PUSH1",     baseFee |-> 3,  gasFn |-> "none",   logicFn |-> "PUSH1"]) @@
    (243 :> [name |-> "RETURN",    baseFee |-> 0,  gasFn |-> "memory", logicFn |-> "RETURN"]) @@
    (253 :> [name |-> "REVERT",    baseFee |-> 0,  gasFn |-> "memory", logicFn |-> "REVERT"]) @@
    (254 :> [name |-> "INVALID",   baseFee |-> 0,  gasFn |-> "none",   logicFn |-> "INVALID"])

\* no EVM built yet: the default map as the package defines it
EvmIdle ==
    /\ opcodes = DefaultOpcodes
    /\ heap = << >>
    /\ evms = << >>
    /\ run = NoRun

----------------------------------------------------------------------------
(* updateIndex *)

\* Mutant of WithinTxLookupLimit: the block one past the limit still counts as within.
WithinTxLookupLimitInclusive(limitConfig, height, number) ==
    limitConfig = 0 \/ height - limitConfig <= number

\* line 247: withinTxLookupLimit
WithinTxLookupLimit(limitConfig, height, number) ==
    limitConfig = 0 \/ height - limitConfig < number

\* Mutant of AfterSaveLoop: a negative limit is raised to 0 instead of ending the update.
AfterSaveLoopClamped(task) ==
    IF txLookupLimit > 0
      THEN [task EXCEPT !.pc = "getBlock", !.limit = Max(Height - txLookupLimit, 0)]
      ELSE [task EXCEPT !.pc = "done"]

\* lines 257-263, up to the await of getBlock: what follows the save loop.
\* The chain height is read again here.
AfterSaveLoop(task) ==
    IF txLookupLimit > 0
      THEN IF Height - txLookupLimit < 0
             THEN [task EXCEPT !.pc = "done"]
             ELSE [task EXCEPT !.pc = "getBlock", !.limit = Height - txLookupLimit]
      ELSE [task EXCEPT !.pc = "done"]

\* lines 245-254, up to the first await: updateIndex(Save, TxHash, block) is entered
\* synchronously by saveReceipts; the put of the first index is then pending.
StartSave(block) ==
    LET within == WithinTxLookupLimit(txLookupLimit, Height, block.number)
        task   == [pc |-> "save", i |-> 0, within |-> within, head |-> Height, limit |-> -1]
    IN  IF within /\ Len(block.transactions) > 0 THEN task ELSE AfterSaveLoop(task)

\* Mutant of StartDelete: only the index of the last transaction is deleted.
StartDeleteLastOnly(block) ==
    IF Len(block.transactions) > 0
      THEN [pc |-> "delete", block |-> block.number, j |-> Len(block.transactions) - 1]
      ELSE [pc |-> "done", block |-> block.number, j |-> 0]

\* lines 264-267, up to the first await: updateIndex(Delete, TxHash, block)
StartDelete(block) ==
    IF Len(block.transactions) > 0
      THEN [pc |-> "delete", block |-> block.number, j |-> 0]
      ELSE [pc |-> "done", block |-> block.number, j |-> 0]

\* Mutant of EncodedIndex: every transaction is indexed as the first of its block.
EncodedIndexFirst(block, i) == RlpEncodeTxHash(<<BlockHash(block), 0>>)

\* Mutant of EncodedIndex: the index is one-based.
EncodedIndexOneBased(block, i) == RlpEncodeTxHash(<<BlockHash(block), i + 1>>)

\* lines 252-253: the index of transaction i of the block, encoded
EncodedIndex(block, i) == RlpEncodeTxHash(<<BlockHash(block), i>>)

\* this.put(DBKey.TxHash, key, value)
PutTxHash(db, key, value) ==
    [h \in DOMAIN db \cup {key} |-> IF h = key THEN value ELSE db[h]]

\* this.delete(DBKey.TxHash, key)
DeleteTxHash(db, key) == [h \in DOMAIN db \ {key} |-> db[h]]

\* this.put(DBKey.Receipts, key, value)
PutReceipts(db, key, value) ==
    [h \in DOMAIN db \cup {key} |-> IF h = key THEN value ELSE db[h]]

Running(n) == tasks[n].pc \in {"save", "getBlock"} \/ dels[n].pc = "delete"

----------------------------------------------------------------------------
(* Actions of Spec *)

\* The chain takes a new head block (chain.putBlocks, outside the manager).
AddBlock(b) ==
    /\ Height < Len(calls)
    /\ chain' = Append(chain, MkBlock(Height + 1, b))
    /\ UNCHANGED <<txLookupLimit, receiptsDB, txHashDB, calls, tasks, dels, quiet>>
    /\ UNCHANGED <<logVars, pureVars, evmVars>>

\* saveReceipts(block, receipts), lines 102-103: encode, start the put of the receipts.
\* The execution saves block after block and awaits each call.
SaveReceiptsCall(n, receipts) ==
    /\ n <= Height
    /\ calls[n].pc = "none"
    /\ n > 1 => calls[n - 1].pc \in {"returned", "threw"}
    /\ calls' = [calls EXCEPT ![n] = [pc |-> "putReceipts", receipts |-> receipts,
                                      encoded |-> RlpEncodeReceipts(receipts)]]
    /\ UNCHANGED <<txLookupLimit, chain, receiptsDB, txHashDB, tasks, dels, quiet>>
    /\ UNCHANGED <<logVars, pureVars, evmVars>>

\* saveReceipts, lines 103-105: the put resolved; updateIndex is called and not awaited,
\* and saveReceipts returns.
SaveReceiptsReturn(n) ==
    /\ calls[n].pc = "putReceipts"
    /\ receiptsDB' = PutReceipts(receiptsDB, BlockHash(GetBlockByNumber(n)), calls[n].encoded)
    /\ calls' = [calls EXCEPT ![n].pc = "returned"]
    /\ tasks' = [tasks EXCEPT ![n] = StartSave(GetBlockByNumber(n))]
    /\ quiet' = [m \in Calls |-> IF m = n THEN \A o \in Calls : ~Running(o) ELSE FALSE]
    /\ UNCHANGED <<txLookupLimit, chain, txHashDB, dels>>
    /\ UNCHANGED <<logVars, pureVars, evmVars>>

\* saveReceipts, line 103: the put of the receipts rejected; saveReceipts throws.
SaveReceiptsThrow(n) ==
    /\ calls[n].pc = "putReceipts"
    /\ calls' = [calls EXCEPT ![n].pc = "threw"]
    /\ UNCHANGED <<txLookupLimit, chain, receiptsDB, txHashDB, tasks, dels, quiet>>
    /\ UNCHANGED <<logVars, pureVars, evmVars>>

\* updateIndex(Save), lines 251-263: the pending put of index i resolved; the loop goes
\* on to the next put, or past the loop to the pruning.
IndexPut(n) ==
    /\ tasks[n].pc = "save"
    /\ LET block == GetBlockByNumber(n)
           i     == tasks[n].i
           next  == [tasks[n] EXCEPT !.i = i + 1]
       IN  /\ txHashDB' = PutTxHash(txHashDB, block.transactions[i + 1].hash, EncodedIndex(block, i))
           /\ tasks' = [tasks EXCEPT ![n] =
                          IF i + 1 < Len(block.transactions) THEN next ELSE AfterSaveLoop(next)]
    /\ UNCHANGED <<txLookupLimit, chain, receiptsDB, calls, dels, quiet>>
    /\ UNCHANGED <<logVars, pureVars, evmVars>>

\* updateIndex(Save), line 254: the put rejected; the promise nobody awaits rejects.
IndexPutFail(n) ==
    /\ tasks[n].pc = "save"
    /\ tasks' = [tasks EXCEPT ![n].pc = "rejected"]
    /\ UNCHANGED <<txLookupLimit, chain, receiptsDB, txHashDB, calls, dels, quiet>>
    /\ UNCHANGED <<logVars, pureVars, evmVars>>

\* updateIndex(Save), lines 261-262: getBlock(limit) resolved; updateIndex(Delete) is
\* called and not awaited.
PruneGetBlock(n) ==
    /\ tasks[n].pc = "getBlock"
    /\ tasks' = [tasks EXCEPT ![n].pc = "done"]
    /\ dels' = [dels EXCEPT ![n] = StartDelete(GetBlockByNumber(tasks[n].limit))]
    /\ UNCHANGED <<txLookupLimit, chain, receiptsDB, txHashDB, calls, quiet>>
    /\ UNCHANGED <<logVars, pureVars, evmVars>>

\* updateIndex(Save), line 261: getBlock(limit) rejected; the promise nobody awaits
\* rejects and no updateIndex(Delete) is started.
PruneGetBlockFail(n) ==
    /\ tasks[n].pc = "getBlock"
    /\ tasks' = [tasks EXCEPT ![n].pc = "rejected"]
    /\ UNCHANGED <<txLookupLimit, chain, receiptsDB, txHashDB, calls, dels, quiet>>
    /\ UNCHANGED <<logVars, pureVars, evmVars>>

\* updateIndex(Delete), lines 265-267: the pending delete of index j resolved.
IndexDelete(n) ==
    /\ dels[n].pc = "delete"
    /\ LET block == GetBlockByNumber(dels[n].block)
           j     == dels[n].j
       IN  /\ txHashDB' = DeleteTxHash(txHashDB, block.transactions[j + 1].hash)
           /\ dels' = [dels EXCEPT ![n] =
                         [@ EXCEPT !.j = j + 1,
                                   !.pc = IF j + 1 < Len(block.transactions) THEN "delete" ELSE "done"]]
    /\ UNCHANGED <<txLookupLimit, chain, receiptsDB, calls, tasks, quiet>>
    /\ UNCHANGED <<logVars, pureVars, evmVars>>

\* updateIndex(Delete), line 266: the delete rejected; the promise nobody awaits rejects.
IndexDeleteFail(n) ==
    /\ dels[n].pc = "delete"
    /\ dels' = [dels EXCEPT ![n].pc = "rejected"]
    /\ UNCHANGED <<txLookupLimit, chain, receiptsDB, txHashDB, calls, tasks, quiet>>
    /\ UNCHANGED <<logVars, pureVars, evmVars>>

\* The manager over a fresh metaDB and a chain holding the genesis block.
Init ==
    /\ txLookupLimit \in 0..MaxLookupLimit
    /\ chain = <<Genesis>>
    /\ receiptsDB = << >>
    /\ txHashDB = << >>
    /\ calls = [n \in 1..MaxHeight |-> NoCall]
    /\ tasks = [n \in 1..MaxHeight |-> NoTask]
    /\ dels = [n \in 1..MaxHeight |-> NoTask]
    /\ quiet = [n \in 1..MaxHeight |-> FALSE]
    /\ LogsIdle
    /\ PureIdle
    /\ EvmIdle

Next ==
    \/ \E b \in BlockPool : AddBlock(b)
    \/ \E n \in Calls : SaveReceiptsCall(n, ReceiptsOf(GetBlockByNumber(IF n <= Height THEN n ELSE 0)))
    \/ \E n \in Calls : SaveReceiptsReturn(n)
    \/ \E n \in Calls : SaveReceiptsThrow(n)
    \/ \E n \in Calls : IndexPut(n)
    \/ \E n \in Calls : IndexPutFail(n)
    \/ \E n \in Calls : PruneGetBlock(n)
    \/ \E n \in Calls : PruneGetBlockFail(n)
    \/ \E n \in Calls : IndexDelete(n)
    \/ \E n \in Calls : IndexDeleteFail(n)

Spec == Init /\ [][Next]_vars

\* Longest chain of SpecWindow.
MaxWindowHeight == 3

\* the block SpecWindow puts at height n, without logs: two transactions in block 1,
\* one in every later block, no tx hash in two blocks
WindowBlock(n) ==
    IF n = 1 THEN [hashes |-> <<1, 2>>, logs |-> << << >>, << >> >>]
             ELSE [hashes |-> <<n + 1>>, logs |-> << << >> >>]

\* The manager over a fresh metaDB and a chain that is to grow to the given height.
InitGrowingTo(height) ==
    /\ txLookupLimit \in 0..MaxLookupLimit
    /\ chain = <<Genesis>>
    /\ receiptsDB = << >>
    /\ txHashDB = << >>
    /\ calls = [n \in 1..height |-> NoCall]
    /\ tasks = [n \in 1..height |-> NoTask]
    /\ dels = [n \in 1..height |-> NoTask]
    /\ quiet = [n \in 1..height |-> FALSE]
    /\ LogsIdle
    /\ PureIdle
    /\ EvmIdle

InitWindow == InitGrowingTo(MaxWindowHeight)

NextWindow ==
    \/ AddBlock(WindowBlock(Height + 1))
    \/ \E n \in Calls : SaveReceiptsCall(n, ReceiptsOf(GetBlockByNumber(IF n <= Height THEN n ELSE 0)))
    \/ \E n \in Calls : SaveReceiptsReturn(n)
    \/ \E n \in Calls : SaveReceiptsThrow(n)
    \/ \E n \in Calls : IndexPut(n)
    \/ \E n \in Calls : IndexPutFail(n)
    \/ \E n \in Calls : PruneGetBlock(n)
    \/ \E n \in Calls : PruneGetBlockFail(n)
    \/ \E n \in Calls : IndexDelete(n)
    \/ \E n \in Calls : IndexDeleteFail(n)

SpecWindow == InitWindow /\ [][NextWindow]_vars

\* Longest chain of SpecFair.
MaxFairHeight == 2

\* An index update has rejected. Its promise was discarded (void, lines 104 and 262),
\* so the rejection is unhandled: the runtime ends the process there, or goes on when
\* it is told to warn only or a listener is installed.
UnhandledRejection ==
    \E m \in Calls : tasks[m].pc = "rejected" \/ dels[m].pc = "rejected"

\* The event loop settles every pending promise and runs every continuation: a pending
\* put, getBlock or delete that can resolve does resolve unless it rejects. Nothing is
\* promised once a rejection is unhandled: the process may have ended.
Fairness ==
    \A n \in 1..MaxFairHeight :
        /\ WF_vars(~UnhandledRejection /\ SaveReceiptsReturn(n))
        /\ WF_vars(~UnhandledRejection /\ IndexPut(n))
        /\ WF_vars(~UnhandledRejection /\ PruneGetBlock(n))
        /\ WF_vars(~UnhandledRejection /\ IndexDelete(n))

InitFair == InitGrowingTo(MaxFairHeight)

SpecFair == InitFair /\ [][NextWindow]_vars /\ Fairness

----------------------------------------------------------------------------
(* Claims on saveReceipts and the index (Spec) *)

TxsOf(n) == GetBlockByNumber(n).transactions

\* what getReceiptByTxHash is to return for transaction i (zero-based) of block n
ExpectedLookup(n, i) ==
    LET receipts == ReceiptsOf(GetBlockByNumber(n))
    IN  <<("bitvector" :> LogsBloom(receipts[i + 1].logs)) @@ receipts[i + 1],
          BlockHash(GetBlockByNumber(n)), i,
          SumSeq([k \in 1..i |-> Len(receipts[k].logs)])>>

\* C1 (as claimed): once saveReceipts has returned for a block within the tx-lookup
\* window, getReceiptByTxHash of each of its transactions returns the receipt, the
\* block hash, the index and the log index, even while the index update that
\* saveReceipts started is still in its save loop and no other call was made.
C1_LookupRightAfterSave ==
    \A n \in Calls :
        ( /\ calls[n].pc = "returned"
          /\ tasks[n].pc = "save"
          /\ \A m \in Calls \ {n} : calls[m].pc = "none" )
        => \A i \in 0..(Len(TxsOf(n)) - 1) :
              GetReceiptByTxHash(TxsOf(n)[i + 1].hash) = ExpectedLookup(n, i)

\* C2 (as claimed): with txLookupLimit = L > 0, once the index update of the block at
\* height h has finished, its deletions included, no TxHash index remains for any
\* transaction of the block at height h - L.
C2_PrunedBelowSavedBlock ==
    \A n \in Calls :
        ( /\ txLookupLimit > 0
          /\ n - txLookupLimit >= 0
          /\ tasks[n].pc = "done"
          /\ dels[n].pc = "done" )
        => \A k \in 1..Len(TxsOf(n - txLookupLimit)) :
              TxsOf(n - txLookupLimit)[k].hash \notin DOMAIN txHashDB

\* C3 (as claimed): saveReceipts does not complete successfully when a put of a TxHash
\* index of its save path fails.
C3_FailedIndexPutReported ==
    \A n \in Calls :
        (tasks[n].pc = "rejected" /\ tasks[n].i < Len(TxsOf(n))) => calls[n].pc # "returned"

\* C4: every TxHash entry present maps its key, a tx hash, to the hash of a block and
\* an index such that the transaction at that index of that block has that tx hash.
C4_IndexPointsToOwnTx ==
    \A h \in DOMAIN txHashDB :
        LET index == RlpDecodeTxHash(txHashDB[h])
        IN  \E k \in 1..Len(chain) :
                /\ BlockHash(chain[k]) = index[1]
                /\ index[2] < Len(chain[k].transactions)
                /\ chain[k].transactions[index[2] + 1].hash = h

\* C4 witness: a stale index: its block is outside the lookup window, the delete that
\* was to remove it rejected, and nothing is left running.
C4_Witness ==
    /\ txLookupLimit > 0
    /\ \A n \in Calls : ~Running(n)
    /\ \E n \in Calls : dels[n].pc = "rejected"
    /\ \E h \in DOMAIN txHashDB :
          GetBlockByHash(RlpDecodeTxHash(txHashDB[h])[1]).number <= Height - txLookupLimit

\* the tx-lookup window as the claim states it, at the chain head the call saw
InWindow(n) == txLookupLimit = 0 \/ tasks[n].head - txLookupLimit < n

\* C10: the save path writes TxHash:{tx.hash} -> (block.hash, i) for the transactions
\* of the saved block if and only if txLookupLimit = 0 or chainHead - txLookupLimit <
\* block.number: an update outside the window writes no index, an update inside it
\* that got past its save loop has written one per transaction, and every write is of
\* (block.hash, i) under the hash of transaction i.
C10_IndexWrittenIffInWindow ==
    /\ [](\A n \in Calls : tasks[n].pc # "none" =>
            /\ ~InWindow(n) => tasks[n].i = 0
            /\ (InWindow(n) /\ tasks[n].pc \in {"getBlock", "done"})
                 => tasks[n].i = Len(TxsOf(n)))
    /\ [][\A n \in Calls :
            (tasks[n].pc = "save" /\ tasks'[n].i # tasks[n].i) =>
               /\ InWindow(n)
               /\ TxsOf(n)[tasks[n].i + 1].hash \in DOMAIN txHashDB'
               /\ RlpDecodeTxHash(txHashDB'[TxsOf(n)[tasks[n].i + 1].hash])
                    = <<BlockHash(GetBlockByNumber(n)), tasks[n].i>>]_vars

\* C10 witness: one update outside the window that wrote nothing for a block with
\* transactions, and one inside it that wrote an index for each transaction.
C10_Witness ==
    /\ \E n \in Calls :
          /\ tasks[n].pc = "done" /\ ~InWindow(n)
          /\ Len(TxsOf(n)) > 0 /\ tasks[n].i = 0
    /\ \E m \in Calls :
          /\ tasks[m].pc \in {"getBlock", "done"} /\ InWindow(m)
          /\ Len(TxsOf(m)) = 2 /\ tasks[m].i = 2

\* the tx hashes looked up: those of the transactions of the pool, and one of no
\* transaction
LookupHashes == {0} \cup UNION {{b.hashes[k] : k \in 1..Len(b.hashes)} : b \in BlockPool}

\* the receipts stored for the block a TxHash index names, none if nothing is stored
StoredFor(h) ==
    LET blockHash == RlpDecodeTxHash(txHashDB[h])[1]
    IN  IF blockHash \in DOMAIN receiptsDB THEN RlpDecodeReceipts(receiptsDB[blockHash]) ELSE << >>

\* C20: getReceiptByTxHash never raises; it returns null exactly when the hash has no
\* TxHash index or no receipts are stored for the indexed block; when it returns a
\* tuple the indexed txIndex is smaller than the number of receipts stored for that
\* block and the receipt returned is the stored receipt at txIndex.
C20_LookupNullOrDefined ==
    \A h \in LookupHashes :
        LET r == GetReceiptByTxHash(h)
        IN  /\ r # TypeError
            /\ r = Null <=> (h \notin DOMAIN txHashDB \/ StoredFor(h) = << >>)
            /\ r # Null =>
                  /\ r[3] < Len(StoredFor(h))
                  /\ r[1].logs = StoredFor(h)[r[3] + 1].logs
                  /\ r[1].cumulativeBlockGasUsed = StoredFor(h)[r[3] + 1].cumulativeBlockGasUsed

\* C20 witness: of a saved block of two transactions, one has no index and its lookup
\* returns null, the other is indexed and its lookup returns the second receipt.
C20_Witness ==
    \E n \in Calls :
        /\ calls[n].pc = "returned"
        /\ Len(TxsOf(n)) = 2
        /\ GetReceiptByTxHash(TxsOf(n)[1].hash) = Null
        /\ GetReceiptByTxHash(TxsOf(n)[2].hash) # Null
        /\ GetReceiptByTxHash(TxsOf(n)[2].hash)[3] = 1
        /\ GetReceiptByTxHash(0) = Null

\* the addresses and topics of a list of logs
BloomItems(logs) ==
    UNION {{logs[k][1]} \cup {logs[k][2][q] : q \in 1..Len(logs[k][2])} : k \in 1..Len(logs)}

\* C21: the bloom of the receipt returned by getReceiptByTxHash has exactly the bits
\* of the address and of every topic of each log of that receipt: each of them tests
\* positive in it, and the bloom of a receipt without logs has no bit set.
C21_BloomOfLogs ==
    \A h \in LookupHashes :
        LET r == GetReceiptByTxHash(h)
        IN  (r # Null /\ r # TypeError) =>
              /\ \A item \in BloomItems(r[1].logs) : BloomCheck(r[1].bitvector, item)
              /\ r[1].bitvector = UNION {BloomBits(item) : item \in BloomItems(r[1].logs)}
              /\ r[1].logs = << >> => r[1].bitvector = {}

\* C21 witness: lookups return a receipt of three logs with up to two topics each,
\* and a receipt without logs whose bloom is empty.
C21_Witness ==
    \E h, g \in LookupHashes :
        /\ GetReceiptByTxHash(h) # Null
        /\ Len(GetReceiptByTxHash(h)[1].logs) = 3
        /\ T2 \in BloomItems(GetReceiptByTxHash(h)[1].logs)
        /\ GetReceiptByTxHash(g) # Null
        /\ GetReceiptByTxHash(g)[1].logs = << >>
        /\ GetReceiptByTxHash(g)[1].bitvector = {}

\* some put, delete or getBlock of the store rejected
StorageFailed ==
    \E m \in Calls :
        calls[m].pc = "threw" \/ tasks[m].pc = "rejected" \/ dels[m].pc = "rejected"

\* a TxHash index (block.hash, i) exists for every transaction i of block n
AllIndexed(n) ==
    /\ n <= Height
    /\ \A i \in 0..(Len(TxsOf(n)) - 1) :
        /\ TxsOf(n)[i + 1].hash \in DOMAIN txHashDB
        /\ RlpDecodeTxHash(txHashDB[TxsOf(n)[i + 1].hash]) = <<BlockHash(GetBlockByNumber(n)), i>>

\* C22 (as claimed): once saveReceipts has started the index update of a block that
\* is within the tx-lookup window, and unless a storage operation fails, a state is
\* eventually reached where a TxHash index (block.hash, i) exists for every
\* transaction i of the block.
C22_EventuallyAllIndexed ==
    \A n \in 1..MaxFairHeight : (tasks[n].pc = "save") ~> (StorageFailed \/ AllIndexed(n))

\* C22 (amended): once saveReceipts has started the index update of a block that is
\* within the tx-lookup window, and unless a storage operation fails, the save loop
\* eventually ends; when it has ended, and until the update starts deleting, one write
\* per transaction was made and a TxHash index (block.hash, i) exists for every
\* transaction i of the block if no other index update ran since this one started.
C22_EventuallyAllWritten ==
    /\ <>[](\A n \in Calls : tasks[n].pc = "save" => StorageFailed)
    /\ [](\A n \in Calls :
            ( /\ tasks[n].pc \in {"getBlock", "done"}
              /\ tasks[n].within
              /\ dels[n].pc = "none"
              /\ quiet[n]
              /\ ~StorageFailed )
            => /\ tasks[n].i = Len(TxsOf(n))
               /\ AllIndexed(n))

\* C22 witness: without any failure, an undisturbed update of a block of two
\* transactions got past its save loop and both indexes exist.
C22_Witness ==
    \E n \in Calls :
        /\ ~StorageFailed
        /\ tasks[n].pc \in {"getBlock", "done"}
        /\ tasks[n].within
        /\ dels[n].pc = "none"
        /\ quiet[n]
        /\ Len(TxsOf(n)) = 2
        /\ AllIndexed(n)
        /\ Cardinality(DOMAIN txHashDB) = 2

\* the number of the block a TxHash index names
IndexedBlock(h) == GetBlockByHash(RlpDecodeTxHash(txHashDB[h])[1]).number

\* saveReceipts was called once for each block of the chain, each while it was the
\* head, nothing failed, and no call or index update is pending
SavedAsHeadAdvanced ==
    /\ ~StorageFailed
    /\ \A n \in Calls :
          /\ ~Running(n)
          /\ calls[n].pc # "putReceipts"
          /\ n <= Height => (calls[n].pc = "returned" /\ tasks[n].head = n)

\* C23 (as claimed): with txLookupLimit = L > 0 and saveReceipts called once per block
\* as the head advances, in every state where no index update is pending the TxHash
\* indexes present belong only to blocks with number in (chainHead - L, chainHead].
C23_IndexesWithinWindow ==
    (txLookupLimit > 0 /\ SavedAsHeadAdvanced) =>
        \A h \in DOMAIN txHashDB :
            /\ Height - txLookupLimit < IndexedBlock(h)
            /\ IndexedBlock(h) <= Height

\* C24: once saveReceipts has stored the receipts of a block, getReceipts(block.hash)
\* returns those receipts whatever saveReceipts calls for other blocks, index writes
\* and index deletions followed, the pruning of the block's own indexes included.
C24_ReceiptsKept ==
    \A n \in Calls :
        calls[n].pc = "returned" =>
            GetReceipts(BlockHash(GetBlockByNumber(n)), FALSE, FALSE) = calls[n].receipts

\* C24 witness: the two indexes of a saved block were written and then deleted by the
\* update of a later block, and getReceipts still returns its two receipts.
C24_Witness ==
    \E n, m \in Calls :
        /\ n # m
        /\ calls[n].pc = "returned" /\ calls[m].pc = "returned"
        /\ tasks[n].pc = "done" /\ tasks[n].i = 2
        /\ dels[m].pc = "done" /\ dels[m].block = n
        /\ \A h \in DOMAIN txHashDB : RlpDecodeTxHash(txHashDB[h])[1] # BlockHash(GetBlockByNumber(n))
        /\ Len(GetReceipts(BlockHash(GetBlockByNumber(n)), FALSE, FALSE)) = 2

\* the tx hashes of the block at height n
HashesOf(n) == {TxsOf(n)[k].hash : k \in 1..Len(TxsOf(n))}

\* C25 (as claimed): within one index update the deletion of the pruned block's indexes
\* starts only after every TxHash write for the saved block has completed, and a tx
\* hash that occurs both in the saved block and in the pruned block has no index when
\* the update finishes, with its last deletion.
C25_NoIndexAfterUpdate ==
    /\ [](\A n \in Calls :
            dels[n].pc # "none" =>
              /\ tasks[n].pc = "done"
              /\ tasks[n].within => tasks[n].i = Len(TxsOf(n)))
    /\ [][\A n \in Calls :
            (dels[n].pc = "delete" /\ dels'[n].pc = "done") =>
              \A h \in HashesOf(n) \cap HashesOf(dels[n].block) : h \notin DOMAIN txHashDB']_vars

\* C25 (amended): within one index update the deletion of the pruned block's indexes
\* starts only after every TxHash write for the saved block has completed, and a tx
\* hash that occurs both in the saved block and in the pruned block has no index once
\* the update has finished, if no other index update ran since this one started.
C25_NoIndexAfterQuietUpdate ==
    \A n \in Calls :
        /\ dels[n].pc # "none" =>
              /\ tasks[n].pc = "done"
              /\ tasks[n].within => tasks[n].i = Len(TxsOf(n))
        /\ (tasks[n].pc = "done" /\ dels[n].pc = "done" /\ quiet[n]) =>
              \A h \in HashesOf(n) \cap HashesOf(dels[n].block) : h \notin DOMAIN txHashDB

\* C25 witness: an undisturbed update wrote the two indexes of its block, then deleted
\* those of the pruned block, which has the same two tx hashes; none is left.
C25_Witness ==
    \E n \in Calls :
        /\ tasks[n].pc = "done" /\ tasks[n].within /\ tasks[n].i = 2
        /\ dels[n].pc = "done" /\ dels[n].j = 2
        /\ quiet[n]
        /\ dels[n].block # n
        /\ HashesOf(n) = HashesOf(dels[n].block)
        /\ HashesOf(n) \cap DOMAIN txHashDB = {}

\* C28: with txLookupLimit = L > 0, as long as chainHead - L < 0 no index update has
\* requested a block for pruning or started a deletion; with L = 0 none ever does; an
\* update that did request one requested the block at a height >= 0.
C28_NoPruningBelowGenesis ==
    \A n \in Calls :
        /\ (txLookupLimit = 0 \/ Height - txLookupLimit < 0) =>
              (tasks[n].pc # "getBlock" /\ dels[n].pc = "none")
        /\ (tasks[n].pc = "getBlock" \/ dels[n].pc # "none") =>
              (txLookupLimit > 0 /\ tasks[n].limit >= 0)

\* C28 witness: txLookupLimit is larger than the chain head; the update of a block of
\* two transactions wrote both indexes and ended without pruning.
C28_Witness ==
    \E n \in Calls :
        /\ txLookupLimit > 0
        /\ Height - txLookupLimit < 0
        /\ tasks[n].pc = "done" /\ tasks[n].i = 2
        /\ dels[n].pc = "none"
        /\ Cardinality(DOMAIN txHashDB) = 2

----------------------------------------------------------------------------
(* getLogs *)

\* Mutant of BlockLogs: the log index restarts at 0 in every receipt.
BlockLogsPerReceipt(block, receipts) ==
    ConcatAll([r \in 1..Len(receipts) |->
        [q \in 1..Len(receipts[r].logs) |->
            [log |-> receipts[r].logs[q], block |-> block, tx |-> block.transactions[r],
             txIndex |-> r - 1, logIndex |-> q - 1]]])

\* lines 179-191: the logs of a block, numbered through the block before any filter
BlockLogs(block, receipts) ==
    ConcatAll([r \in 1..Len(receipts) |->
        [q \in 1..Len(receipts[r].logs) |->
            [log |-> receipts[r].logs[q], block |-> block, tx |-> block.transactions[r],
             txIndex |-> r - 1,
             logIndex |-> SumSeq([k \in 1..(r - 1) |-> Len(receipts[k].logs)]) + q - 1]]])

\* Mutant of AddressFilter: only the first address given is compared.
AddressFilterFirstOnly(logs, addresses) ==
    IF addresses.given /\ Len(addresses.list) > 0
      THEN SelectSeq(logs, LAMBDA l : addresses.list[1] = l.log[1])
      ELSE logs

\* lines 192-194
AddressFilter(logs, addresses) ==
    IF addresses.given /\ Len(addresses.list) > 0
      THEN SelectSeq(logs, LAMBDA l : \E a \in 1..Len(addresses.list) : addresses.list[a] = l.log[1])
      ELSE logs

\* lines 204-216: the callback of the topics filter on one log: "true", "false",
\* "undefined" (the loop ran out), or "throw" (Buffer.equals of an absent topic).
\* The loop returns from its first iteration: line 215 is inside the loop body.
TopicsCallback(topics, l) ==
    IF Len(topics) = 0 THEN "undefined"
    ELSE
      LET topic == topics[1]
          has   == Len(l.log[2]) > 0
      IN  IF topic.kind = "list"
            THEN IF Len(topic.list) = 0 THEN "false"
                 ELSE IF ~has THEN "throw"
                 ELSE IF \E t \in 1..Len(topic.list) : topic.list[t] = l.log[2][1]
                        THEN "true" ELSE "false"
          ELSE IF topic.kind = "null" THEN "true"
          ELSE IF ~has THEN "throw"
          ELSE IF topic.value = l.log[2][1] THEN "true" ELSE "false"

\* lines 195-218: the topics filter over the logs of a block
TopicsFilter(logs, topics) ==
    IF Len(topics) = 0 THEN [threw |-> FALSE, logs |-> logs]
    ELSE IF \E k \in 1..Len(logs) : TopicsCallback(topics, logs[k]) = "throw"
      THEN [threw |-> TRUE, logs |-> << >>]
      ELSE [threw |-> FALSE,
            logs |-> SelectSeq(logs, LAMBDA l : TopicsCallback(topics, l) = "true")]

\* the decimal digits of a number, as JSON.stringify prints it
RECURSIVE Digits(_)
Digits(n) == IF n < 10 THEN 1 ELSE 1 + Digits(n \div 10)

\* JSON.stringify of a Buffer of len bytes of value byte:
\* {"type":"Buffer","data":[b,b,...]}
JsonBuffer(len, byte) == 27 + len * Digits(byte) + Max(len - 1, 0)

\* JSON.stringify of a log [address, topics, data]: an address of 20 bytes, topics of
\* 32 bytes, data of one byte
JsonLog(log) ==
    1 + JsonBuffer(20, log[1]) + 1
      + 2 + SumSeq([t \in 1..Len(log[2]) |-> JsonBuffer(32, log[2][t])]) + Max(Len(log[2]) - 1, 0)
      + 1 + JsonBuffer(1, log[3]) + 1

\* JSON.stringify of the transaction of an entry: its hash and its type
JsonTx(tx) == 86

\* JSON.stringify of the block of an entry: its number and its transactions
JsonBlock(block) == 6 + 87 * Len(block.transactions)

\* JSON.stringify of one entry {log, block, tx, txIndex, logIndex} of the result
JsonEntry(e) ==
    46 + JsonLog(e.log) + JsonBlock(e.block) + JsonTx(e.tx) + Digits(e.txIndex) + Digits(e.logIndex)

\* line 220: Buffer.byteLength(JSON.stringify(logs)): brackets, entries, commas
JsonByteLength(logs) ==
    2 + SumSeq([k \in 1..Len(logs) |-> JsonEntry(logs[k])]) + Max(Len(logs) - 1, 0)

\* Mutant of ReturnedLogs: the result is cut at GET_LOGS_LIMIT entries.
ReturnedLogsCut(returnedLogs, logs) ==
    SubSeq(returnedLogs \o logs, 1, IF Len(returnedLogs) + Len(logs) > GET_LOGS_LIMIT
                                      THEN GET_LOGS_LIMIT ELSE Len(returnedLogs) + Len(logs))

\* line 219: returnedLogs.push(...logs)
ReturnedLogs(returnedLogs, logs) == returnedLogs \o logs

\* lines 221-224
LimitReached(returnedLogs, returnedLogsSize) ==
    \/ Len(returnedLogs) >= GET_LOGS_LIMIT
    \/ returnedLogsSize >= GET_LOGS_LIMIT_MEGABYTES * 1048576

\* lines 179-218: the logs of a block, numbered, that the two filters keep
FilteredLogs(block, receipts, addresses, topics) ==
    TopicsFilter(AddressFilter(BlockLogs(block, receipts), addresses), topics)

\* lines 175 and 227: the loop goes on to block number i, or ends and getLogs returns
LoopAt(r, i, to) ==
    IF i > to THEN [r EXCEPT !.pc = "returned", !.next = i]
              ELSE [r EXCEPT !.pc = "getBlock", !.next = i]

\* lines 178-226: one iteration of the loop, from the receipts read for block r.next
GetLogsIteration(r, q, receipts) ==
    LET block    == GetBlockByNumber(r.next)
        filtered == FilteredLogs(block, receipts, q.addresses, q.topics)
        returned == ReturnedLogs(r.logs, filtered.logs)
        size     == r.size + JsonByteLength(filtered.logs)
        read     == [r EXCEPT !.seen = @ \cup {r.next}]
        pushed   == [read EXCEPT !.logs = returned, !.size = size]
    IN  IF Len(receipts) = 0 THEN LoopAt(r, r.next + 1, q.to)
        ELSE IF filtered.threw THEN [read EXCEPT !.pc = "threw", !.threw = TRUE, !.logs = << >>]
        ELSE IF LimitReached(returned, size) THEN [pushed EXCEPT !.pc = "returned"]
        ELSE LoopAt(pushed, r.next + 1, q.to)

----------------------------------------------------------------------------
(* Actions of SpecLogs *)

\* getLogs(from, to, addresses, topics) is called on two blocks of the chain, lines
\* 173-176: up to the first await, of getBlock(from.number). query and result follow
\* one call: a call writes nothing and keeps its logs and their size in locals, so it
\* runs the same whatever other calls are in flight.
GetLogsCall(from, to, addresses, topics) ==
    /\ ~query.made
    /\ query' = [made |-> TRUE, from |-> from, to |-> to, addresses |-> addresses, topics |-> topics]
    /\ result' = LoopAt(NoResult, from, to)
    /\ UNCHANGED <<GET_LOGS_LIMIT, GET_LOGS_LIMIT_MEGABYTES, GET_LOGS_BLOCK_RANGE_LIMIT>>
    /\ UNCHANGED <<storeVars, pureVars, evmVars>>

\* line 176: chain.getBlock(i) resolved; getReceipts(block.hash()) is pending.
GetLogsGetBlock ==
    /\ result.pc = "getBlock"
    /\ result' = [result EXCEPT !.pc = "getReceipts"]
    /\ UNCHANGED <<query, GET_LOGS_LIMIT, GET_LOGS_LIMIT_MEGABYTES, GET_LOGS_BLOCK_RANGE_LIMIT>>
    /\ UNCHANGED <<storeVars, pureVars, evmVars>>

\* lines 177-227: getReceipts resolved with what is stored now; the iteration runs to
\* the next await or to the end of the call.
GetLogsGetReceipts ==
    /\ result.pc = "getReceipts"
    /\ result' = GetLogsIteration(result, query,
                     GetReceipts(BlockHash(GetBlockByNumber(result.next)), FALSE, FALSE))
    /\ UNCHANGED <<query, GET_LOGS_LIMIT, GET_LOGS_LIMIT_MEGABYTES, GET_LOGS_BLOCK_RANGE_LIMIT>>
    /\ UNCHANGED <<storeVars, pureVars, evmVars>>

\* lines 176-177: getBlock or the get of the receipts rejected; getLogs rejects.
GetLogsReject ==
    /\ result.pc \in {"getBlock", "getReceipts"}
    /\ result' = [result EXCEPT !.pc = "rejected", !.logs = << >>]
    /\ UNCHANGED <<query, GET_LOGS_LIMIT, GET_LOGS_LIMIT_MEGABYTES, GET_LOGS_BLOCK_RANGE_LIMIT>>
    /\ UNCHANGED <<storeVars, pureVars, evmVars>>

\* the chains of SpecLogs: genesis and up to MaxLogHeight blocks of the pool
LogChains ==
    UNION {{[k \in 1..(h + 1) |-> IF k = 1 THEN Genesis ELSE MkBlock(k - 1, bs[k - 1])] :
              bs \in [1..h -> LogBlockPool]} : h \in 1..MaxLogHeight}

\* A manager over a synced chain and a fresh metaDB, its limits set; the execution
\* is about to save the receipts of the blocks, no getLogs call was made yet.
InitLogs ==
    /\ txLookupLimit = 0
    /\ chain \in LogChains
    /\ receiptsDB = << >>
    /\ txHashDB = << >>
    /\ calls = [n \in 1..MaxLogHeight |-> NoCall]
    /\ tasks = [n \in 1..MaxLogHeight |-> NoTask]
    /\ dels = [n \in 1..MaxLogHeight |-> NoTask]
    /\ quiet = [n \in 1..MaxLogHeight |-> FALSE]
    /\ \E limits \in LogLimits :
          /\ GET_LOGS_LIMIT = limits[1]
          /\ GET_LOGS_LIMIT_MEGABYTES = limits[2]
          /\ GET_LOGS_BLOCK_RANGE_LIMIT = limits[3]
    /\ query = NoQuery
    /\ result = NoResult
    /\ PureIdle
    /\ EvmIdle

\* getLogs runs while the execution saves the receipts of block after block and the
\* index updates that saveReceipts starts write their TxHash entries. txLookupLimit is
\* 0 in SpecLogs: no update gets past line 257, none prunes.
NextLogs ==
    \/ \E from \in 0..Height, to \in 0..Height, filters \in LogFilters :
          GetLogsCall(from, to, filters[1], filters[2])
    \/ GetLogsGetBlock
    \/ GetLogsGetReceipts
    \/ GetLogsReject
    \/ \E n \in 1..Height : SaveReceiptsCall(n, ReceiptsOf(GetBlockByNumber(n)))
    \/ \E n \in 1..Height : SaveReceiptsReturn(n)
    \/ \E n \in 1..Height : SaveReceiptsThrow(n)
    \/ \E n \in 1..Height : IndexPut(n)
    \/ \E n \in 1..Height : IndexPutFail(n)

SpecLogs == InitLogs /\ [][NextLogs]_vars

----------------------------------------------------------------------------
(* Claims on getLogs (SpecLogs) *)

\* the call has returned a result
Returned(q) == q.made /\ result.pc = "returned"

\* the numbers of the blocks the loop of the last call processed
Visited == {b \in query.from..query.to : b <= result.next}

\* the receipts the loop of the last call read for block number b: those stored, or
\* none if they were not stored yet when it read them
ReceiptsRead(b) ==
    IF b \in result.seen THEN GetReceipts(BlockHash(GetBlockByNumber(b)), FALSE, FALSE) ELSE << >>

\* the numbered logs of block number b, as the loop read them
EntriesOf(b) ==
    LET logs == BlockLogs(GetBlockByNumber(b), ReceiptsRead(b))
    IN  {logs[k] : k \in 1..Len(logs)}

InResult(e) == \E k \in 1..Len(result.logs) : result.logs[k] = e

\* the address filter as specified
AddressMatch(addresses, log) ==
    (addresses.given /\ Len(addresses.list) > 0)
        => \E a \in 1..Len(addresses.list) : addresses.list[a] = log[1]

\* the topics filter as specified: every position of the filter is null, or a value
\* equal to the topic of the log at that position, or a list holding that topic
TopicsMatch(topics, log) ==
    \A i \in 1..Len(topics) :
        \/ topics[i].kind = "null"
        \/ /\ topics[i].kind = "value"
           /\ Len(log[2]) >= i
           /\ log[2][i] = topics[i].value
        \/ /\ topics[i].kind = "list"
           /\ Len(log[2]) >= i
           /\ \E t \in 1..Len(topics[i].list) : topics[i].list[t] = log[2][i]

\* the order of the result: block number, then txIndex, then logIndex
Before(e, f) ==
    \/ e.block.number < f.block.number
    \/ e.block.number = f.block.number /\ e.txIndex < f.txIndex
    \/ e.block.number = f.block.number /\ e.txIndex = f.txIndex /\ e.logIndex < f.logIndex

\* C5 (as claimed): of the logs that pass the address filter, getLogs keeps exactly
\* those that match the topics filter at every position.
C5_TopicsConjunctive ==
    Returned(query) =>
        \A b \in Visited : \A e \in EntriesOf(b) :
            AddressMatch(query.addresses, e.log)
                => (InResult(e) <=> TopicsMatch(query.topics, e.log))

\* C6 (as claimed): getLogs returns at most GET_LOGS_LIMIT logs.
C6_AtMostLimit ==
    Returned(query) => Len(result.logs) <= GET_LOGS_LIMIT

\* C7 (as claimed): the result is in ascending (block, txIndex, logIndex) order and is
\* a prefix of the ordered list of the matching logs of the range: every log returned
\* matches, and no matching log before a returned one is missing.
C7_OrderedPrefixOfMatching ==
    Returned(query) =>
        /\ \A k, l \in 1..Len(result.logs) : k < l => Before(result.logs[k], result.logs[l])
        /\ \A k \in 1..Len(result.logs) :
              /\ result.logs[k].block.number \in query.from..query.to
              /\ result.logs[k] \in EntriesOf(result.logs[k].block.number)
              /\ AddressMatch(query.addresses, result.logs[k].log)
              /\ TopicsMatch(query.topics, result.logs[k].log)
        /\ \A b \in query.from..query.to : \A e \in EntriesOf(b) :
              ( /\ AddressMatch(query.addresses, e.log)
                /\ TopicsMatch(query.topics, e.log)
                /\ \E k \in 1..Len(result.logs) : Before(e, result.logs[k]) )
              => InResult(e)

\* C11 (as claimed): a getLogs call that returns has processed at most
\* GET_LOGS_BLOCK_RANGE_LIMIT blocks, whatever its from and to blocks.
C11_RangeBounded ==
    Returned(query) => Cardinality(Visited) <= GET_LOGS_BLOCK_RANGE_LIMIT

\* C19 (as claimed): a log of a processed block that has fewer topics than a position
\* of the filter holding a value or a list is not in the result, and the call does
\* not throw.
C19_ShortLogExcluded ==
    (query.made /\ result.pc \in {"returned", "threw"}) =>
        \A b \in Visited : \A e \in EntriesOf(b) : \A i \in 1..Len(query.topics) :
            (query.topics[i].kind \in {"value", "list"} /\ Len(e.log[2]) < i)
                => (~result.threw /\ ~InResult(e))

\* C8: with addresses given and non-empty, a log of a processed block is kept only if
\* its address is one of them, and is kept if it is one of them and matches the topics
\* filter (without a topics filter: if and only if it is one of them); with addresses
\* absent or empty no log is excluded for its address.
C8_AddressFilter ==
    Returned(query) =>
        \A b \in Visited : \A e \in EntriesOf(b) :
            LET listed == e.log[1] \in {query.addresses.list[a] : a \in 1..Len(query.addresses.list)}
                free   == ~query.addresses.given \/ query.addresses.list = << >>
            IN  /\ InResult(e) => (free \/ listed)
                /\ ((free \/ listed) /\ TopicsMatch(query.topics, e.log)) => InResult(e)

\* C8 witness: a call with two addresses and no topics kept a log of the second
\* address and dropped a log of another address in the same block.
C8_Witness ==
    /\ Returned(query)
    /\ query.addresses = Addrs(<<CC, BB>>)
    /\ query.topics = << >>
    /\ \E b \in Visited : \E e, f \in EntriesOf(b) :
          /\ e.log[1] = BB /\ InResult(e)
          /\ f.log[1] = AA /\ ~InResult(f)

\* the block of scenario 5: receipt 0 logs {0xAA, [T1, T2]}, receipt 1 logs {0xBB, [T1]}
ScenarioBlock(b) ==
    /\ Len(b.transactions) = 2
    /\ b.logs = << <<<<AA, <<T1, T2>>, 0>>>>, <<<<BB, <<T1>>, 0>>>> >>

\* C9: every entry returned carries the position of its receipt in the block as
\* txIndex and the position of its log among all the logs of the block, counted before
\* any filter, as logIndex; on the block of scenario 5 the query addresses = [0xAA],
\* topics = [null, T2] returns exactly the first log, with logIndex 0 and txIndex 0.
C9_IndexesBeforeFiltering ==
    Returned(query) =>
        /\ \A k \in 1..Len(result.logs) :
              LET e        == result.logs[k]
                  receipts == ReceiptsOf(e.block)
                  position == e.logIndex - SumSeq([j \in 1..e.txIndex |-> Len(receipts[j].logs)])
              IN  /\ e.block = GetBlockByNumber(e.block.number)
                  /\ e.txIndex \in 0..(Len(receipts) - 1)
                  /\ e.tx = e.block.transactions[e.txIndex + 1]
                  /\ position \in 0..(Len(receipts[e.txIndex + 1].logs) - 1)
                  /\ e.log = receipts[e.txIndex + 1].logs[position + 1]
        /\ ( /\ query.addresses = Addrs(<<AA>>)
             /\ query.topics = <<AnyTopic, OneTopic(T2)>> )
           => \A b \in result.seen : ScenarioBlock(GetBlockByNumber(b)) =>
                 SelectSeq(result.logs, LAMBDA e : e.block.number = b)
                   = <<[log |-> <<AA, <<T1, T2>>, 0>>, block |-> GetBlockByNumber(b),
                        tx |-> GetBlockByNumber(b).transactions[1],
                        txIndex |-> 0, logIndex |-> 0]>>

\* C9 witness: scenario 5: the range of three blocks whose middle block is the block
\* of the scenario, the others without receipts, queried with addresses = [0xAA] and
\* topics = [null, T2], returns one log, with logIndex 0 and txIndex 0.
C9_Witness ==
    /\ Returned(query)
    /\ Height = 2 /\ query.from = 0 /\ query.to = 2
    /\ ScenarioBlock(GetBlockByNumber(1))
    /\ GetBlockByNumber(2).transactions = << >>
    /\ query.addresses = Addrs(<<AA>>)
    /\ query.topics = <<AnyTopic, OneTopic(T2)>>
    /\ Len(result.logs) = 1
    /\ result.logs[1].logIndex = 0 /\ result.logs[1].txIndex = 0
    /\ result.logs[1].log = <<AA, <<T1, T2>>, 0>>

\* the logs of block number b that the filters of the last call keep, in order
MatchingOf(b) ==
    FilteredLogs(GetBlockByNumber(b), ReceiptsRead(b), query.addresses, query.topics).logs

\* the entries of the result that are logs of block number b, in order
ResultOf(b) == SelectSeq(result.logs, LAMBDA e : e.block.number = b)

\* C26: the count and size budgets of getLogs act only between blocks: of every block
\* the loop processed, all the logs the filters keep are in the result, of every other
\* block none is; the result is never cut inside a block, and when it holds more than
\* GET_LOGS_LIMIT logs the excess is at most the number of kept logs of the last block
\* processed minus one.
C26_BudgetsAtBlockBoundaries ==
    Returned(query) =>
        /\ \A b \in 0..Height :
              ResultOf(b) = IF b \in Visited THEN MatchingOf(b) ELSE << >>
        /\ Len(result.logs) > GET_LOGS_LIMIT =>
              /\ result.next \in Visited
              /\ Len(result.logs) - GET_LOGS_LIMIT <= Len(MatchingOf(result.next)) - 1

\* C26 witness: with GET_LOGS_LIMIT = 2 a call over two blocks returned the three
\* logs of the first and stopped; the second block has logs the filters keep and none
\* of them is in the result.
C26_Witness ==
    /\ Returned(query)
    /\ GET_LOGS_LIMIT = 2
    /\ Len(result.logs) = 3
    /\ query.from = 1 /\ query.to = 2 /\ result.next = 1
    /\ Len(MatchingOf(1)) = 3
    /\ calls[2].pc = "returned"
    /\ FilteredLogs(GetBlockByNumber(2), ReceiptsOf(GetBlockByNumber(2)),
                    query.addresses, query.topics).logs # << >>
    /\ ResultOf(2) = << >>

\* what getLogs returns of the block of hash blockHash without any filter
UnfilteredLogs(blockHash) ==
    FilteredLogs(GetBlockByHash(blockHash), GetReceipts(blockHash, FALSE, FALSE), Absent, << >>).logs

\* C27: for every transaction with at least one log that getReceiptByTxHash finds,
\* the logIndex it returns is the logIndex that getLogs, called without filters on
\* the block of the transaction, gives the first log of that transaction's receipt.
C27_LogIndexAgrees ==
    \A h \in LookupHashes :
        LET r == GetReceiptByTxHash(h)
        IN  (r # Null /\ r # TypeError /\ r[1].logs # << >>) =>
              LET mine == SelectSeq(UnfilteredLogs(r[2]), LAMBDA e : e.txIndex = r[3])
              IN  /\ Len(mine) = Len(r[1].logs)
                  /\ mine[1].log = r[1].logs[1]
                  /\ mine[1].logIndex = r[4]

\* C27 witness: the second transaction of a saved block is looked up; the first
\* receipt of the block has a log, so the logIndex returned is 1, that of the second
\* entry of the unfiltered getLogs.
C27_Witness ==
    \E h \in LookupHashes :
        /\ GetReceiptByTxHash(h) # Null
        /\ GetReceiptByTxHash(h)[3] = 1
        /\ GetReceiptByTxHash(h)[4] = 1
        /\ Len(UnfilteredLogs(GetReceiptByTxHash(h)[2])) = 2
        /\ UnfilteredLogs(GetReceiptByTxHash(h)[2])[2].logIndex = 1
        /\ UnfilteredLogs(GetReceiptByTxHash(h)[2])[2].txIndex = 1

----------------------------------------------------------------------------
(* rlp() on lists of receipts (SpecRlp) *)

PreByzantiumTxReceipt(stateRoot, gas, logs) ==
    [stateRoot |-> stateRoot, cumulativeBlockGasUsed |-> gas,
     bitvector |-> LogsBloom(logs), logs |-> logs]

PostByzantiumTxReceipt(status, gas, logs) ==
    [status |-> status, cumulativeBlockGasUsed |-> gas,
     bitvector |-> LogsBloom(logs), logs |-> logs]

ReceiptPool ==
    {PreByzantiumTxReceipt(root, gas, logs) : root \in StateRoots, gas \in GasAmounts, logs \in LogLists}
    \cup {PostByzantiumTxReceipt(status, gas, logs) : status \in {0, 1}, gas \in GasAmounts, logs \in LogLists}

ReceiptLists == UNION {[1..n -> ReceiptPool] : n \in 0..MaxReceipts}

\* rlp(RlpConvert.Encode, RlpType.Receipts, receipts)
RlpEncodeCall(receipts) ==
    /\ codec.pc = "none"
    /\ codec' = [pc |-> "encoded", receipts |-> receipts,
                 encoded |-> RlpEncodeReceipts(receipts), decoded |-> << >>]
    /\ UNCHANGED <<precompile, storeVars, logVars, evmVars>>

\* rlp(RlpConvert.Decode, RlpType.Receipts, encoded) on what the call before returned
RlpDecodeCall ==
    /\ codec.pc = "encoded"
    /\ codec' = [codec EXCEPT !.pc = "decoded", !.decoded = RlpDecodeReceipts(codec.encoded)]
    /\ UNCHANGED <<precompile, storeVars, logVars, evmVars>>

StoreIdle ==
    /\ txLookupLimit = 0
    /\ chain = <<Genesis>>
    /\ receiptsDB = << >>
    /\ txHashDB = << >>
    /\ calls = [n \in 1..MaxHeight |-> NoCall]
    /\ tasks = [n \in 1..MaxHeight |-> NoTask]
    /\ dels = [n \in 1..MaxHeight |-> NoTask]
    /\ quiet = [n \in 1..MaxHeight |-> FALSE]

InitRlp ==
    /\ StoreIdle
    /\ LogsIdle
    /\ PureIdle
    /\ EvmIdle

NextRlp ==
    \/ \E receipts \in ReceiptLists : RlpEncodeCall(receipts)
    \/ RlpDecodeCall

SpecRlp == InitRlp /\ [][NextRlp]_vars

IsPreByzantium(receipt) == "stateRoot" \in DOMAIN receipt

\* C12: decoding the encoding of a list of receipts, each pre-Byzantium (stateRoot of
\* 32 bytes) or post-Byzantium (status 0 or 1), yields a list of the same length whose
\* receipts have the same variant, the same stateRoot or status, the same cumulative
\* gas used and the same logs; the variant decoded is pre-Byzantium exactly when the
\* first encoded field is 32 bytes long.
C12_ReceiptsRoundTrip ==
    codec.pc = "decoded" =>
        /\ Len(codec.decoded) = Len(codec.receipts)
        /\ \A k \in 1..Len(codec.receipts) :
              LET r == codec.receipts[k]
                  d == codec.decoded[k]
              IN  /\ IsPreByzantium(d) <=> IsPreByzantium(r)
                  /\ IsPreByzantium(d) <=> Len(codec.encoded[k][1]) = 32
                  /\ IsPreByzantium(r) => d.stateRoot = r.stateRoot
                  /\ ~IsPreByzantium(r) => ("status" \in DOMAIN d /\ d.status = r.status)
                  /\ d.cumulativeBlockGasUsed = r.cumulativeBlockGasUsed
                  /\ d.logs = r.logs

\* C12 witness: a list of a pre-Byzantium receipt and a failed post-Byzantium receipt
\* with logs was encoded and decoded.
C12_Witness ==
    /\ codec.pc = "decoded"
    /\ Len(codec.receipts) = 2
    /\ IsPreByzantium(codec.receipts[1])
    /\ codec.receipts[1].cumulativeBlockGasUsed = 65536
    /\ ~IsPreByzantium(codec.receipts[2])
    /\ codec.receipts[2].status = 0
    /\ codec.receipts[2].logs # << >>
    /\ ~IsPreByzantium(codec.decoded[2])

----------------------------------------------------------------------------
(* The SHA256 and RIPEMD160 precompiles (SpecPrecompiles) *)

\* class EvmError
EvmError(error) == [error |-> error, errorType |-> "EvmError"]

\* OOGResult(gasLimit)
OOGResult(gasLimit) ==
    [returnValue |-> << >>, executionGasUsed |-> gasLimit, exceptionError |-> EvmError("out of gas")]

\* isFalsy(opts.data): a Buffer, even an empty one, is not falsy
IsFalsy(data) == ~data.given

\* Math.ceil(length / 32)
CeilWords(length) == (length + 31) \div 32

\* sha256(data): a digest of 32 bytes
Sha256(bytes) == [k \in 1..32 |-> (SumSeq(bytes) + 31 * Len(bytes) + 7 * k) % 256]

\* ripemd160(data): a digest of 20 bytes
Ripemd160(bytes) == [k \in 1..20 |-> (SumSeq(bytes) + 17 * Len(bytes) + 5 * k + 1) % 256]

\* setLengthLeft(msg, length): zeros on the left, or the rightmost bytes
SetLengthLeft(msg, length) ==
    IF Len(msg) < length
      THEN [k \in 1..(length - Len(msg)) |-> 0] \o msg
      ELSE SubSeq(msg, Len(msg) - length + 1, Len(msg))

Thrown(message) == [threw |-> message]

\* Mutant of Precompile02: the cost is charged without the test against the gas limit.
Precompile02Unmetered(opts) ==
    IF IsFalsy(opts.data) THEN Thrown("opts.data missing but required")
    ELSE [executionGasUsed |-> opts.common.sha256
                                 + opts.common.sha256Word * CeilWords(Len(opts.data.bytes)),
          returnValue |-> Sha256(opts.data.bytes)]

\* precompile02(opts)
Precompile02(opts) ==
    IF IsFalsy(opts.data) THEN Thrown("opts.data missing but required")
    ELSE
      LET data    == opts.data.bytes
          gasUsed == opts.common.sha256 + opts.common.sha256Word * CeilWords(Len(data))
      IN  IF opts.gasLimit < gasUsed THEN OOGResult(opts.gasLimit)
          ELSE [executionGasUsed |-> gasUsed, returnValue |-> Sha256(data)]

\* Mutant of Precompile03: a gas limit equal to the cost is out of gas too.
Precompile03Strict(opts) ==
    IF IsFalsy(opts.data) THEN Thrown("opts.data missing but required")
    ELSE
      LET data    == opts.data.bytes
          gasUsed == opts.common.ripemd160 + opts.common.ripemd160Word * CeilWords(Len(data))
      IN  IF opts.gasLimit <= gasUsed THEN OOGResult(opts.gasLimit)
          ELSE [executionGasUsed |-> gasUsed, returnValue |-> SetLengthLeft(Ripemd160(data), 32)]

\* precompile03(opts)
Precompile03(opts) ==
    IF IsFalsy(opts.data) THEN Thrown("opts.data missing but required")
    ELSE
      LET data    == opts.data.bytes
          gasUsed == opts.common.ripemd160 + opts.common.ripemd160Word * CeilWords(Len(data))
      IN  IF opts.gasLimit < gasUsed THEN OOGResult(opts.gasLimit)
          ELSE [executionGasUsed |-> gasUsed, returnValue |-> SetLengthLeft(Ripemd160(data), 32)]

PrecompileInputs == [data : DataPool, gasLimit : GasLimits, common : Commons]

\* A call of the precompile at address 0x02; one call is followed per behaviour.
Precompile02Call(opts) ==
    /\ ~precompile.made
    /\ precompile' = [made |-> TRUE, address |-> 2, opts |-> opts, result |-> Precompile02(opts)]
    /\ UNCHANGED <<codec, storeVars, logVars, evmVars>>

\* A call of the precompile at address 0x03.
Precompile03Call(opts) ==
    /\ ~precompile.made
    /\ precompile' = [made |-> TRUE, address |-> 3, opts |-> opts, result |-> Precompile03(opts)]
    /\ UNCHANGED <<codec, storeVars, logVars, evmVars>>

InitPrecompiles ==
    /\ StoreIdle
    /\ LogsIdle
    /\ PureIdle
    /\ EvmIdle

NextPrecompiles ==
    \/ \E opts \in PrecompileInputs : Precompile02Call(opts)
    \/ \E opts \in PrecompileInputs : Precompile03Call(opts)

SpecPrecompiles == InitPrecompiles /\ [][NextPrecompiles]_vars

\* the number of 32-byte words that hold length bytes
WordsFor(length) == CHOOSE w \in 0..length : 32 * w >= length /\ (w = 0 \/ 32 * (w - 1) < length)

\* base + perWord * ceil(len(data) / 32) for the precompile called
ClaimedGas(call) ==
    IF call.address = 2
      THEN call.opts.common.sha256 + call.opts.common.sha256Word * WordsFor(Len(call.opts.data.bytes))
      ELSE call.opts.common.ripemd160 + call.opts.common.ripemd160Word * WordsFor(Len(call.opts.data.bytes))

\* C17: a call of the SHA256 or RIPEMD160 precompile with data returns, for
\* gasLimit < base + perWord * ceil(len(data) / 32), an out-of-gas result with
\* executionGasUsed = gasLimit and empty return data, and otherwise
\* executionGasUsed = that cost, no error, and the hash of the data as return data,
\* 32 bytes long, the RIPEMD160 digest after 12 zero bytes.
C17_HashPrecompileGas ==
    (precompile.made /\ precompile.opts.data.given) =>
        LET res  == precompile.result
            data == precompile.opts.data.bytes
        IN  /\ "threw" \notin DOMAIN res
            /\ IF precompile.opts.gasLimit < ClaimedGas(precompile)
                 THEN /\ res.executionGasUsed = precompile.opts.gasLimit
                      /\ res.returnValue = << >>
                      /\ "exceptionError" \in DOMAIN res
                      /\ res.exceptionError.error = "out of gas"
                 ELSE /\ res.executionGasUsed = ClaimedGas(precompile)
                      /\ "exceptionError" \notin DOMAIN res
                      /\ Len(res.returnValue) = 32
                      /\ precompile.address = 2 => res.returnValue = Sha256(data)
                      /\ precompile.address = 3 =>
                            /\ SubSeq(res.returnValue, 1, 12) = [k \in 1..12 |-> 0]
                            /\ SubSeq(res.returnValue, 13, 32) = Ripemd160(data)

\* C17 witness: RIPEMD160 of 33 bytes, two words, called with exactly its cost.
C17_Witness ==
    /\ precompile.made
    /\ precompile.address = 3
    /\ precompile.opts.data.given
    /\ Len(precompile.opts.data.bytes) = 33
    /\ precompile.opts.gasLimit = 840
    /\ precompile.result.executionGasUsed = 840
    /\ "exceptionError" \notin DOMAIN precompile.result

\* C29: a call of the SHA256 or RIPEMD160 precompile with data never reports more
\* executionGasUsed than the gasLimit it was given, whether it succeeds or runs out
\* of gas, whatever the length of the data.
C29_GasUsedWithinLimit ==
    (precompile.made /\ precompile.opts.data.given) =>
        /\ "executionGasUsed" \in DOMAIN precompile.result
        /\ precompile.result.executionGasUsed >= 0
        /\ precompile.result.executionGasUsed <= precompile.opts.gasLimit

\* C29 witness: SHA256 of 33 bytes, two words, called with one unit of gas less than
\* its cost: out of gas, and the gas used is the gas limit.
C29_Witness ==
    /\ precompile.made
    /\ precompile.address = 2
    /\ precompile.opts.data.given
    /\ Len(precompile.opts.data.bytes) = 33
    /\ precompile.opts.gasLimit = ClaimedGas(precompile) - 1
    /\ "exceptionError" \in DOMAIN precompile.result
    /\ precompile.result.executionGasUsed = precompile.opts.gasLimit

----------------------------------------------------------------------------
(* The opcode table of an EVM *)

\* the custom opcode of the tests: name TEST, baseFee 333, gasFunction gas + 33,
\* logicFunction pushing 1
TestOpcode(slot) ==
    [opcode |-> slot, opcodeName |-> "TEST", baseFee |-> 333,
     gasFunction |-> "plus33", logicFunction |-> "push1"]

\* the custom opcode of the copy test: no gasFunction
TestOpcodeNoGas(slot) ==
    [opcode |-> slot, opcodeName |-> "TEST", baseFee |-> 333, logicFunction |-> "push1"]

\* an entry with only the opcode field
DeleteOpcode(slot) == [opcode |-> slot]

HasOnlyOpcode(entry) == DOMAIN entry = {"opcode"}

\* Mutant of InstallCustom: an entry with only the opcode field leaves the slot alone.
InstallCustomKeeping(table, entry) ==
    IF HasOnlyOpcode(entry) THEN table
    ELSE [op \in DOMAIN table \cup {entry.opcode} |->
            IF op = entry.opcode
              THEN [name |-> entry.opcodeName, baseFee |-> entry.baseFee,
                    gasFn |-> IF "gasFunction" \in DOMAIN entry THEN entry.gasFunction ELSE "none",
                    logicFn |-> entry.logicFunction]
              ELSE table[op]]

\* one entry of the overlay: delete the slot, or install the descriptor given
InstallCustom(table, entry) ==
    IF HasOnlyOpcode(entry) THEN [op \in DOMAIN table \ {entry.opcode} |-> table[op]]
    ELSE [op \in DOMAIN table \cup {entry.opcode} |->
            IF op = entry.opcode
              THEN [name |-> entry.opcodeName, baseFee |-> entry.baseFee,
                    gasFn |-> IF "gasFunction" \in DOMAIN entry THEN entry.gasFunction ELSE "none",
                    logicFn |-> entry.logicFunction]
              ELSE table[op]]

\* the working table of an EVM: the defaults with the entries applied in order
RECURSIVE OpcodeTable(_, _)
OpcodeTable(defaults, customOpcodes) ==
    IF customOpcodes = << >> THEN defaults
    ELSE OpcodeTable(InstallCustom(defaults, Head(customOpcodes)), Tail(customOpcodes))

\* Mutant of DefaultsAfterBuild: the entries are applied to the shared default map.
DefaultsAfterBuildInPlace(defaults, customOpcodes) == OpcodeTable(defaults, customOpcodes)

\* the shared default map after a table was built from it: the build works on a clone
DefaultsAfterBuild(defaults, customOpcodes) == defaults

\* Mutant of CopyCustomOpcodes: the copy holds the array of the original.
CopyCustomOpcodesByReference(arrays, ref) == [heap |-> arrays, ref |-> ref]

\* the customOpcodes of a copy: a new array with the entries of the original's
CopyCustomOpcodes(arrays, ref) == [heap |-> Append(arrays, arrays[ref]), ref |-> Len(arrays) + 1]

----------------------------------------------------------------------------
(* The interpreter *)

\* operands taken from and results put on the stack by a handler
Arity(logicFn) ==
    CASE logicFn \in {"ADD", "KECCAK256"} -> [in |-> 2, out |-> 1]
      [] logicFn \in {"MSTORE", "SSTORE", "RETURN", "REVERT"} -> [in |-> 2, out |-> 0]
      [] logicFn \in {"POP", "JUMP"} -> [in |-> 1, out |-> 0]
      [] logicFn \in {"PUSH1", "push1"} -> [in |-> 0, out |-> 1]
      [] OTHER -> [in |-> 0, out |-> 0]

\* peek(i): the i-th word from the top of the stack
Peek(stack, i) == stack[Len(stack) - i + 1]

\* the stack without its n top words
Drop(stack, n) == SubSeq(stack, 1, Len(stack) - n)

\* memory words needed to hold length bytes at offset, at least the words held now
WordsAfter(memory, offset, length) ==
    IF length = 0 THEN Len(memory) \div 32
    ELSE Max(Len(memory) \div 32, (offset + length + 31) \div 32)

\* cost of being at w words
MemoryCost(w) == 3 * w + (w * w) \div 512

\* expansion charge: the positive delta between the new and the old cost
ExpansionCost(memory, offset, length) ==
    MemoryCost(WordsAfter(memory, offset, length)) - MemoryCost(Len(memory) \div 32)

\* resize(offset, length)
Resize(memory, offset, length) ==
    memory \o [k \in 1..(32 * WordsAfter(memory, offset, length) - Len(memory)) |-> 0]

\* Mutant of GasFn: only the base fee is charged.
GasFnBaseFeeOnly(desc, st) == desc.baseFee

\* gasFn(runState, baseFee): the total charged for the step
GasFn(desc, st) ==
    CASE desc.gasFn = "plus33" -> desc.baseFee + 33
      [] desc.gasFn = "sstore" -> desc.baseFee + 20000    \* a write that sets a slot
      [] desc.gasFn = "memory" ->
            LET offset == Peek(st.stack, 1)
                length == IF desc.logicFn = "MSTORE" THEN 32 ELSE Peek(st.stack, 2)
            IN  desc.baseFee + ExpansionCost(st.memory, offset, length)
                  + (IF desc.logicFn = "KECCAK256" THEN 6 * ((length + 31) \div 32) ELSE 0)
      [] OTHER -> desc.baseFee

\* the JUMPDEST set: positions of 0x5b found by a walk that skips PUSH immediates
RECURSIVE JumpDests(_, _)
JumpDests(code, pc) ==
    IF pc >= Len(code) THEN {}
    ELSE IF code[pc + 1] = 96 THEN JumpDests(code, pc + 2)
    ELSE IF code[pc + 1] = 91 THEN {pc} \cup JumpDests(code, pc + 1)
    ELSE JumpDests(code, pc + 1)

\* a word as 32 bytes, big-endian
WordBytes(word) == SetLengthLeft(IntToBuffer(word), 32)

\* the bytes of memory from offset, length of them
MemoryRead(memory, offset, length) == [k \in 1..length |-> memory[offset + k]]

\* logicFn(runState): the run state after the handler; halt is set when it halts.
\* The words of the codes run here are single bytes and their sums.
LogicFn(desc, code, st) ==
    LET a == Peek(st.stack, 1)
        b == Peek(st.stack, 2)
        rest == Drop(st.stack, Arity(desc.logicFn).in)
        next == [st EXCEPT !.pc = st.pc + 1, !.stack = rest]
    IN  CASE desc.logicFn = "STOP" -> [st EXCEPT !.halt = "stop"]
          [] desc.logicFn = "INVALID" -> [st EXCEPT !.halt = "invalid opcode"]
          [] desc.logicFn = "ADD" -> [next EXCEPT !.stack = Append(rest, a + b)]
          [] desc.logicFn = "KECCAK256" ->
                [next EXCEPT !.memory = Resize(st.memory, a, b),
                             !.stack = Append(rest, Keccak256(a + b)[1])]
          [] desc.logicFn = "MSTORE" ->
                LET grown == Resize(st.memory, a, 32)
                IN  [next EXCEPT !.memory = [k \in 1..Len(grown) |->
                                               IF k \in (a + 1)..(a + 32) THEN WordBytes(b)[k - a]
                                               ELSE grown[k]]]
          [] desc.logicFn = "JUMP" ->
                IF a \in JumpDests(code, 0) THEN [next EXCEPT !.pc = a]
                ELSE [st EXCEPT !.halt = "invalid JUMP"]
          [] desc.logicFn = "PUSH1" ->
                [next EXCEPT !.pc = st.pc + 2,
                             !.stack = Append(rest, IF st.pc + 2 <= Len(code) THEN code[st.pc + 2] ELSE 0)]
          [] desc.logicFn = "push1" -> [next EXCEPT !.stack = Append(rest, 1)]
          [] desc.logicFn = "RETURN" ->
                [st EXCEPT !.halt = "return", !.stack = rest, !.memory = Resize(st.memory, a, b),
                           !.returnValue = MemoryRead(Resize(st.memory, a, b), a, b)]
          [] desc.logicFn = "REVERT" ->
                [st EXCEPT !.halt = "revert", !.stack = rest, !.memory = Resize(st.memory, a, b),
                           !.returnValue = MemoryRead(Resize(st.memory, a, b), a, b)]
          [] OTHER -> next

\* the main loop of a call frame, from the run state st to the run state at its halt
RECURSIVE Interpret(_, _, _)
Interpret(table, code, st) ==
    IF st.pc >= Len(code) THEN [st EXCEPT !.halt = "stop"]
    ELSE
      LET op == code[st.pc + 1]
      IN  IF op \notin DOMAIN table THEN [st EXCEPT !.halt = "invalid opcode"]
          ELSE
            LET desc   == table[op]
                arity  == Arity(desc.logicFn)
                charge == GasFn(desc, st)
                paid   == [st EXCEPT !.gasLeft = st.gasLeft - charge,
                                     !.events = Append(st.events,
                                        [pc |-> st.pc, name |-> desc.name,
                                         gasLeft |-> st.gasLeft - charge])]
                after  == LogicFn(desc, code, paid)
            IN  IF Len(st.stack) < arity.in THEN [st EXCEPT !.halt = "stack underflow"]
                ELSE IF Len(st.stack) - arity.in + arity.out > 1024
                  THEN [st EXCEPT !.halt = "stack overflow"]
                ELSE IF st.isStatic /\ desc.logicFn = "SSTORE"
                  THEN [st EXCEPT !.halt = "static state change"]
                ELSE IF charge > st.gasLeft THEN [st EXCEPT !.halt = "out of gas"]
                ELSE IF after.halt # "" THEN after
                ELSE Interpret(table, code, after)

\* Mutant of HaltGasLeft: every failing halt returns the gas that is left.
HaltGasLeftReturned(halt, gasLeft) == gasLeft

\* the gas left to the caller after a halt: none after an exceptional halt but Revert
HaltGasLeft(halt, gasLeft) == IF halt \in {"stop", "return", "revert"} THEN gasLeft ELSE 0

\* runCode({code, gasLimit, isStatic}) on an EVM with the table given
RunCode(table, code, gasLimit, isStatic) ==
    LET st   == Interpret(table, code,
                          [pc |-> 0, gasLeft |-> gasLimit, stack |-> << >>, memory |-> << >>,
                           isStatic |-> isStatic, events |-> << >>, halt |-> "", returnValue |-> << >>])
        used == gasLimit - HaltGasLeft(st.halt, st.gasLeft)
    IN  IF st.halt \in {"stop", "return"}
          THEN [executionGasUsed |-> used, returnValue |-> st.returnValue,
                runState |-> [stack |-> st.stack, programCounter |-> st.pc], events |-> st.events]
          ELSE [executionGasUsed |-> used,
                returnValue |-> IF st.halt = "revert" THEN st.returnValue ELSE << >>,
                exceptionError |-> EvmError(st.halt),
                runState |-> [stack |-> st.stack, programCounter |-> st.pc], events |-> st.events]

----------------------------------------------------------------------------
(* Building, copying and running EVMs (SpecEvm) *)

\* the customOpcodes options EVMs are created with
CustomOpcodeLists ==
    { << >>, <<TestOpcode(33)>>, <<TestOpcode(32)>>, <<TestOpcodeNoGas(33)>>,
      <<DeleteOpcode(32)>>, <<DeleteOpcode(1)>>, <<TestOpcode(1), DeleteOpcode(1)>> }

\* the entries pushed onto the customOpcodes array of an EVM after it was built
PushedEntries == {DeleteOpcode(96)}

\* PUSH1 04, PUSH1 01, ADD, PUSH1 00, MSTORE, PUSH1 01, PUSH1 1F, RETURN
ReturnFive == <<96, 4, 96, 1, 1, 96, 0, 82, 96, 1, 96, 31, 243>>

\* PUSH1 07, PUSH1 00, MSTORE, PUSH1 01, PUSH1 1F, REVERT
RevertSeven == <<96, 7, 96, 0, 82, 96, 1, 96, 31, 253>>

\* the runCode calls made: the codes of the tests, and codes that halt in each way
RunInputs ==
    { [code |-> <<33>>, gasLimit |-> 123456, isStatic |-> FALSE],
      [code |-> <<33>>, gasLimit |-> 365, isStatic |-> FALSE],
      [code |-> <<32>>, gasLimit |-> 123456, isStatic |-> FALSE],
      [code |-> <<1>>, gasLimit |-> 123456, isStatic |-> FALSE],
      [code |-> ReturnFive, gasLimit |-> 123456, isStatic |-> FALSE],
      [code |-> ReturnFive, gasLimit |-> 10, isStatic |-> FALSE],
      [code |-> RevertSeven, gasLimit |-> 123456, isStatic |-> FALSE],
      [code |-> <<96, 4, 86, 96, 91>>, gasLimit |-> 123456, isStatic |-> FALSE],
      [code |-> <<96, 3, 86, 91, 0>>, gasLimit |-> 123456, isStatic |-> FALSE],
      [code |-> <<96, 0, 96, 0, 85>>, gasLimit |-> 123456, isStatic |-> TRUE],
      [code |-> <<96, 0, 96, 0, 85>>, gasLimit |-> 123456, isStatic |-> FALSE],
      [code |-> <<254>>, gasLimit |-> 123456, isStatic |-> FALSE],
      [code |-> <<80>>, gasLimit |-> 123456, isStatic |-> FALSE],
      [code |-> << >>, gasLimit |-> 123456, isStatic |-> FALSE] }

\* the customOpcodes array an EVM holds
CustomOpcodesOf(e) == heap[evms[e].customOpcodes]

\* EVM.create({customOpcodes}): the array given is kept, the table is built from it
CreateEVM(customOpcodes) ==
    /\ ~run.made
    /\ Len(evms) < MaxEvms
    /\ heap' = Append(heap, customOpcodes)
    /\ evms' = Append(evms, [customOpcodes |-> Len(heap) + 1,
                             table |-> OpcodeTable(opcodes, customOpcodes),
                             registered |-> customOpcodes,
                             initial |-> customOpcodes, pushed |-> << >>, copyOf |-> 0])
    /\ opcodes' = DefaultsAfterBuild(opcodes, customOpcodes)
    /\ UNCHANGED <<run, storeVars, logVars, pureVars>>

\* evm.copy(): the table verbatim, the customOpcodes array duplicated
CopyEVM(e) ==
    /\ ~run.made
    /\ e <= Len(evms)
    /\ Len(evms) < MaxEvms
    /\ LET copied == CopyCustomOpcodes(heap, evms[e].customOpcodes)
       IN  /\ heap' = copied.heap
           /\ evms' = Append(evms, [customOpcodes |-> copied.ref,
                                    table |-> evms[e].table,
                                    registered |-> evms[e].registered,
                                    initial |-> copied.heap[copied.ref], pushed |-> << >>,
                                    copyOf |-> e])
    /\ UNCHANGED <<opcodes, run, storeVars, logVars, pureVars>>

\* evm._customOpcodes.push(entry): the array of an EVM is mutated after the build
PushCustomOpcode(e, entry) ==
    /\ ~run.made
    /\ e <= Len(evms)
    /\ Len(evms[e].pushed) < MaxPushes
    /\ heap' = [heap EXCEPT ![evms[e].customOpcodes] = Append(@, entry)]
    /\ evms' = [evms EXCEPT ![e].pushed = Append(@, entry)]
    /\ UNCHANGED <<opcodes, run, storeVars, logVars, pureVars>>

\* evm.runCode(input) and its result; one call is followed per behaviour, on one of
\* the EVMs built before it
RunCodeCall(e, input) ==
    /\ ~run.made
    /\ e <= Len(evms)
    /\ run' = [made |-> TRUE, evm |-> e, code |-> input.code, gasLimit |-> input.gasLimit,
               isStatic |-> input.isStatic,
               result |-> RunCode(evms[e].table, input.code, input.gasLimit, input.isStatic)]
    /\ UNCHANGED <<opcodes, heap, evms, storeVars, logVars, pureVars>>

InitEvm ==
    /\ StoreIdle
    /\ LogsIdle
    /\ PureIdle
    /\ EvmIdle

NextEvm ==
    \/ \E customOpcodes \in CustomOpcodeLists : CreateEVM(customOpcodes)
    \/ \E e \in 1..MaxEvms : CopyEVM(e)
    \/ \E e \in 1..MaxEvms, entry \in PushedEntries : PushCustomOpcode(e, entry)
    \/ \E e \in 1..MaxEvms, input \in RunInputs : RunCodeCall(e, input)

SpecEvm == InitEvm /\ [][NextEvm]_vars

----------------------------------------------------------------------------
(* Claims on the EVM (SpecEvm) *)

Failed(res) == "exceptionError" \in DOMAIN res

\* the last entry for a slot in the list an EVM's table was built from, if any
EntriesFor(e, slot) == SelectSeq(evms[e].registered, LAMBDA entry : entry.opcode = slot)

Registered(e, slot) ==
    /\ EntriesFor(e, slot) # << >>
    /\ ~HasOnlyOpcode(EntriesFor(e, slot)[Len(EntriesFor(e, slot))])

Deleted(e, slot) ==
    /\ EntriesFor(e, slot) # << >>
    /\ HasOnlyOpcode(EntriesFor(e, slot)[Len(EntriesFor(e, slot))])

\* what the gasFn of a registered entry returns for its baseFee
ClaimedCharge(entry) ==
    IF "gasFunction" \in DOMAIN entry /\ entry.gasFunction = "plus33"
      THEN entry.baseFee + 33 ELSE entry.baseFee

\* C13: on an EVM whose table was built with a custom opcode with fields at a slot
\* (0x21, unused by the defaults, or 0x20 or 0x01, overriding a default), running the
\* code made of that byte with enough gas charges exactly gasFn(runState, baseFee) in
\* total (366 for baseFee 333 and gasFn g -> g + 33), leaves the stack [1] and emits
\* one step event, at pc 0, with the custom name.
C13_CustomOpcodeRuns ==
    \A slot \in {1, 32, 33} :
        ( /\ run.made
          /\ run.code = <<slot>>
          /\ Registered(run.evm, slot) )
        => LET entries == EntriesFor(run.evm, slot)
               entry   == entries[Len(entries)]
               charge  == ClaimedCharge(entry)
           IN  /\ entry = TestOpcode(slot) => charge = 366
               /\ run.gasLimit >= charge =>
                     /\ ~Failed(run.result)
                     /\ run.result.executionGasUsed = charge
                     /\ run.result.runState.stack = <<1>>
                     /\ Len(run.result.events) = 1
                     /\ run.result.events[1].pc = 0
                     /\ run.result.events[1].name = entry.opcodeName

\* C13 witness: the TEST opcode overriding KECCAK256 at 0x20 was run and charged 366.
C13_Witness ==
    /\ run.made
    /\ run.code = <<32>>
    /\ evms[run.evm].registered = <<TestOpcode(32)>>
    /\ run.result.executionGasUsed = 366
    /\ run.result.runState.stack = <<1>>
    /\ run.result.events[1].name = "TEST"

\* C14: on an EVM whose table was built with an entry holding only the opcode field
\* for a slot, a run that comes to execute that byte halts with 'invalid opcode' and
\* executionGasUsed equal to the whole gasLimit; a code that starts with the byte
\* halts on it.
C14_DeletedOpcodeInvalid ==
    run.made =>
        LET pc == run.result.runState.programCounter
        IN  /\ (run.code # << >> /\ Deleted(run.evm, run.code[1])) => pc = 0
            /\ (pc < Len(run.code) /\ Deleted(run.evm, run.code[pc + 1])) =>
                  /\ Failed(run.result)
                  /\ run.result.exceptionError.error = "invalid opcode"
                  /\ run.result.executionGasUsed = run.gasLimit

\* C14 witness: scenario 2: KECCAK256 deleted, code 20 run with gasLimit 123456.
C14_Witness ==
    /\ run.made
    /\ run.code = <<32>>
    /\ run.gasLimit = 123456
    /\ evms[run.evm].registered = <<DeleteOpcode(32)>>
    /\ Failed(run.result)
    /\ run.result.exceptionError.error = "invalid opcode"
    /\ run.result.executionGasUsed = 123456

\* C15: the default opcode map is never changed, and an EVM built without custom
\* opcodes, whatever EVMs were built or run before it, has every default opcode in
\* its table and returns 0x05 for the code 60046001016000526001601FF3.
C15_DefaultsNeverMutated ==
    /\ opcodes = DefaultOpcodes
    /\ \A e \in 1..Len(evms) :
          evms[e].registered = << >> =>
            /\ \A op \in DOMAIN DefaultOpcodes :
                  op \in DOMAIN evms[e].table /\ evms[e].table[op] = DefaultOpcodes[op]
            /\ (run.made /\ run.evm = e /\ run.code = ReturnFive /\ run.gasLimit = 123456)
                  => (~Failed(run.result) /\ run.result.returnValue = <<5>>)

\* C15 witness: scenario 3: an EVM deleting ADD was built, then a default EVM, which
\* ran the code and returned 0x05.
C15_Witness ==
    /\ Len(evms) = 2
    /\ evms[1].registered = <<DeleteOpcode(1)>>
    /\ evms[2].registered = << >>
    /\ evms[2].copyOf = 0
    /\ run.made /\ run.evm = 2 /\ run.code = ReturnFive
    /\ run.result.returnValue = <<5>>

\* C16: the customOpcodes array of a copy holds, when the copy is made, the entries
\* of the original's array; afterwards the array of every EVM holds what it held when
\* the EVM was built or copied followed by what was pushed onto it through that EVM
\* (a push onto the copy's array does not show in the original's, nor the reverse),
\* and the table of every EVM stays the table built from the entries it was
\* registered with.
C16_CopyByValue ==
    /\ [](\A e \in 1..Len(evms) :
            /\ CustomOpcodesOf(e) = evms[e].initial \o evms[e].pushed
            /\ evms[e].table = OpcodeTable(DefaultOpcodes, evms[e].registered))
    /\ [][Len(evms') = Len(evms) + 1 /\ evms'[Len(evms')].copyOf # 0 =>
            heap'[evms'[Len(evms')].customOpcodes] = CustomOpcodesOf(evms'[Len(evms')].copyOf)]_vars

\* C16 witness: an EVM built with the TEST opcode and its copy, each with an entry
\* pushed onto its array after the copy.
C16_Witness ==
    /\ Len(evms) = 2
    /\ evms[2].copyOf = 1
    /\ evms[1].registered = <<TestOpcodeNoGas(33)>>
    /\ evms[1].pushed = <<DeleteOpcode(96)>>
    /\ evms[2].pushed = <<DeleteOpcode(96)>>
    /\ evms[2].initial = <<TestOpcodeNoGas(33)>>

\* C18: a run that halts exceptionally other than by Revert (out of gas, invalid
\* opcode, invalid jump, stack underflow, static state change) has
\* executionGasUsed equal to its gasLimit, whatever gas was left at the halt, and
\* returns no data; a run that halts by Revert has used only the gas charged up to
\* the halt and keeps its return data.
C18_ExceptionalHaltConsumesAll ==
    (run.made /\ Failed(run.result)) =>
        LET res    == run.result
            atHalt == IF res.events = << >> THEN run.gasLimit
                      ELSE res.events[Len(res.events)].gasLeft
        IN  IF res.exceptionError.error = "revert"
              THEN res.executionGasUsed = run.gasLimit - atHalt
              ELSE /\ res.executionGasUsed = run.gasLimit
                   /\ res.returnValue = << >>

\* C18 witness: an invalid jump with gas left at the halt.
C18_Witness ==
    /\ run.made
    /\ Failed(run.result)
    /\ run.result.exceptionError.error = "invalid JUMP"
    /\ run.result.events # << >>
    /\ run.result.events[Len(run.result.events)].gasLeft > 0
    /\ run.result.executionGasUsed = run.gasLimit

====
